---- MODULE Spec2Model ----
(***************************************************************************)
(* A model of the HIP operator kernels of rocm-caffe2:                     *)
(*   caffe2/operators/max_pool_with_index_hip.cc                           *)
(*   caffe2/operators/one_hot_ops_hip.cc                                   *)
(*   caffe2/operators/pad_op_hip.cc                                        *)
(*   caffe2/operators/distance_op_hip.cc                                   *)
(*                                                                         *)
(* State.  One operator instance (op: its type and its arguments), the     *)
(* blobs it reads and writes (blobs: name -> tensor), the operator's       *)
(* scratch tensor aux_ (aux), the kernels it has put on its stream         *)
(* (launches) and where the run stands (status).                           *)
(*                                                                         *)
(* Tensors.  A tensor is [type, dims, data]; data is the flat row-major    *)
(* buffer, so the C element buf[i] is data[i + 1].                         *)
(*                                                                         *)
(* Numbers.  Buffer elements are integers.  A pooling tensor counts in a   *)
(* scale whose largest finite float is FLT_MAX (HALF_MAX for float16) and  *)
(* whose infinity is Inf.  A distance tensor counts in quanta q with       *)
(* kEps = KEps * q^2 (X and Y of L1DistanceGradient in a finer unit, with  *)
(* kEps = L1KEps units); arithmetic on them is exact (no rounding), a      *)
(* result that need not be an integer is kept as num * sqrt(rt) / den.     *)
(*                                                                         *)
(* A kernel launch is modelled by the buffer it leaves behind once the     *)
(* stream has drained: every index of the kernel's grid-stride loop is     *)
(* visited by one thread, and its body is evaluated as the code writes it. *)
(***************************************************************************)
EXTENDS Integers, Sequences, FiniteSets, TLC

VARIABLES op, blobs, aux, launches, status

vars == <<op, blobs, aux, launches, status>>

(***************************************************************************)
(* Bounds of the model.                                                    *)
(***************************************************************************)
\* pooling: the largest number of elements of the input X
MaxPoolElems == 4

\* one-hot: the largest batch size and the largest category count
MaxBatch == 3

MaxCategories == 3

\* padding: the largest height and width of the unpadded image; the image
\* holds at most MaxPadDim * MaxPadDim elements
MaxPadDim == 3

\* a forward padding run explored reads at most MaxPadOutside addresses
\* outside its input
MaxPadOutside == 3

\* distance: the threads of a block (CAFFE_HIP_NUM_THREADS of the build is
\* larger; here a row is longer than a block, so a thread sums several
\* elements of the row)
CAFFE_HIP_NUM_THREADS == 2

(***************************************************************************)
(* Arithmetic of the C code.                                               *)
(***************************************************************************)
Min(a, b) == IF a < b THEN a ELSE b

Max(a, b) == IF a > b THEN a ELSE b

Abs(a) == IF a < 0 THEN -a ELSE a

\* C's int division: truncation toward zero (b > 0)
CDiv(a, b) == IF a >= 0 THEN a \div b ELSE -((-a) \div b)

\* C's remainder: a - (a / b) * b
CMod(a, b) == a - CDiv(a, b) * b

RECURSIVE Prod(_)
Prod(s) == IF s = <<>> THEN 1 ELSE Head(s) * Prod(Tail(s))

RECURSIVE SumSeq(_)
SumSeq(s) == IF s = <<>> THEN 0 ELSE Head(s) + SumSeq(Tail(s))

\* the C element buf[i]
At(buf, i) == buf[i + 1]

\* all buffers of length n over the values V
Buffers(n, V) == [1..n -> V]

(***************************************************************************)
(* Tensors.                                                                *)
(***************************************************************************)
Tensor(type, dims, data) == [type |-> type, dims |-> dims, data |-> data]

\* an output blob no operator has resized or written yet
NoTensor == Tensor("undefined", <<0>>, <<>>)

\* Tensor::size()
Size(t) == Prod(t.dims)

\* Tensor::ndim()
Ndim(t) == Len(t.dims)

\* Tensor::dim32(i)
Dim32(t, i) == t.dims[i + 1]

(***************************************************************************)
(* Float values of the pooling kernels.                                    *)
(***************************************************************************)
\* the largest finite float; 3.4e38 in the code, here the stand-in 10^9 that
\* fits TLC's 32-bit integers and exceeds every other value of the model
FLT_MAX == 1000000000

\* the largest finite float16
HALF_MAX == 65504

\* infinity: above every finite float
Inf == FLT_MAX + 1

\* convert::To<Dtype, float>: widening a stored element to float is exact
ToFloat(type, v) == v

\* float16 has 11 significant bits: the integers up to 2^11 are exact and a
\* magnitude a in [2^e, 2^(e+1)), 11 <= e <= 15, lies between two multiples
\* of 2^(e-10)
HalfSpacing(a) ==
    LET e == CHOOSE x \in 11..15 : 2^x <= a /\ a < 2^(x+1) IN 2^(e-10)

\* the float16 nearest to a magnitude a >= 0, ties to the even significand;
\* from 65520 on, halfway between HALF_MAX and 2^16, the result is infinite
RoundToHalf(a) ==
    IF a <= 2048 THEN a
    ELSE IF a >= 65520 THEN Inf
    ELSE LET s == HalfSpacing(a)
             q == a \div s
             r == a % s
         IN IF 2 * r < s THEN q * s
            ELSE IF 2 * r > s THEN (q + 1) * s
            ELSE IF q % 2 = 0 THEN q * s ELSE (q + 1) * s

\* convert::To<float, Dtype>: narrowing, with round to nearest even for
\* float16; a float is kept as it is
FromFloat(type, v) ==
    IF type = "float16"
    THEN IF v >= 0 THEN RoundToHalf(v) ELSE -RoundToHalf(-v)
    ELSE v

(***************************************************************************)
(* max_pool_with_index_hip.cc: the kernels.                                *)
(*                                                                         *)
(* The kernel arguments are one record k: num, channels, height, width,    *)
(* pooled_height, pooled_width, kernel_h, kernel_w, stride_h, stride_w,    *)
(* pad_h, pad_w.                                                           *)
(***************************************************************************)
\* maxidx = h * width + w
FlatIndex(h, w, width) == h * width + w

\* a slip: ">=" for ">" in the comparison, so that the last maximum wins
RECURSIVE ScanWindowLast(_, _, _, _, _, _, _, _, _)
ScanWindowLast(type, bottom_data, slice, width, h, w, wstart, hend_wend, acc) ==
    IF h >= hend_wend[1] THEN acc
    ELSE IF w >= hend_wend[2]
    THEN ScanWindowLast(type, bottom_data, slice, width, h + 1, wstart, wstart,
                        hend_wend, acc)
    ELSE LET v == ToFloat(type, At(bottom_data, slice + FlatIndex(h, w, width)))
             nxt == IF v >= acc.maxval
                    THEN [maxval |-> v, maxidx |-> FlatIndex(h, w, width)]
                    ELSE acc
         IN ScanWindowLast(type, bottom_data, slice, width, h, w + 1, wstart,
                           hend_wend, nxt)

\* the two scan loops of MaxPoolForward over [h, hend) x [w, wend), the
\* inner one restarting at wstart; acc is (maxval, maxidx)
RECURSIVE ScanWindow(_, _, _, _, _, _, _, _, _)
ScanWindow(type, bottom_data, slice, width, h, w, wstart, hend_wend, acc) ==
    IF h >= hend_wend[1] THEN acc
    ELSE IF w >= hend_wend[2]
    THEN ScanWindow(type, bottom_data, slice, width, h + 1, wstart, wstart,
                    hend_wend, acc)
    ELSE LET v == ToFloat(type, At(bottom_data, slice + FlatIndex(h, w, width)))
             nxt == IF v > acc.maxval
                    THEN [maxval |-> v, maxidx |-> FlatIndex(h, w, width)]
                    ELSE acc
         IN ScanWindow(type, bottom_data, slice, width, h, w + 1, wstart,
                       hend_wend, nxt)

\* the window of output cell (ph, pw) before and after clamping
PoolWindow(k, ph, pw) ==
    LET hstart == ph * k.stride_h - k.pad_h
        wstart == pw * k.stride_w - k.pad_w
    IN [hstart |-> Max(hstart, 0),
        wstart |-> Max(wstart, 0),
        hend   |-> Min(hstart + k.kernel_h, k.height),
        wend   |-> Min(wstart + k.kernel_w, k.width)]

\* the (n, c, ph, pw) of an output index
PoolOutCoord(k, index) ==
    [pw |-> CMod(index, k.pooled_width),
     ph |-> CMod(CDiv(index, k.pooled_width), k.pooled_height),
     c  |-> CMod(CDiv(CDiv(index, k.pooled_width), k.pooled_height), k.channels),
     n  |-> CDiv(CDiv(CDiv(index, k.pooled_width), k.pooled_height), k.channels)]

\* a slip: the channel count left out of the slice offset
PoolSliceNoChannels(k, n, c) == (n + c) * k.height * k.width

\* bottom_slice = bottom_data + (n * channels + c) * height * width
PoolSlice(k, n, c) == (n * k.channels + c) * k.height * k.width

\* a slip: the index recorded in mask counted from the start of the tensor
\* instead of from the start of the slice
MaxPoolForwardAtAbsolute(type, k, bottom_data, index) ==
    LET o == PoolOutCoord(k, index)
        win == PoolWindow(k, o.ph, o.pw)
        slice == PoolSlice(k, o.n, o.c)
        r == ScanWindow(type, bottom_data, slice, k.width, win.hstart,
                        win.wstart, win.wstart, <<win.hend, win.wend>>,
                        [maxval |-> -FLT_MAX, maxidx |-> -1])
    IN [top |-> FromFloat(type, r.maxval), mask |-> slice + r.maxidx]

\* one iteration of MaxPoolForward's loop: what it stores at top_data[index]
\* and mask[index]
MaxPoolForwardAt(type, k, bottom_data, index) ==
    LET o == PoolOutCoord(k, index)
        win == PoolWindow(k, o.ph, o.pw)
        slice == PoolSlice(k, o.n, o.c)
        r == ScanWindow(type, bottom_data, slice, k.width, win.hstart,
                        win.wstart, win.wstart, <<win.hend, win.wend>>,
                        [maxval |-> -FLT_MAX, maxidx |-> -1])
    IN [top |-> FromFloat(type, r.maxval), mask |-> r.maxidx]

\* the kernel: top_data and mask once every index below nthreads was visited
MaxPoolForward(type, nthreads, k, bottom_data) ==
    [top_data |-> [i \in 1..nthreads |->
                      MaxPoolForwardAt(type, k, bottom_data, i - 1).top],
     mask     |-> [i \in 1..nthreads |->
                      MaxPoolForwardAt(type, k, bottom_data, i - 1).mask]]

\* the (n, c, h, w) of an input index
PoolInCoord(k, index) ==
    [w |-> CMod(index, k.width),
     h |-> CMod(CDiv(index, k.width), k.height),
     c |-> CMod(CDiv(CDiv(index, k.width), k.height), k.channels),
     n |-> CDiv(CDiv(CDiv(index, k.width), k.height), k.channels)]

\* a slip: phstart and pwstart always 0
PoolBackRangeFromZero(k, h, w) ==
    [phstart |-> 0,
     phend   |-> Min(CDiv(h + k.pad_h, k.stride_h) + 1, k.pooled_height),
     pwstart |-> 0,
     pwend   |-> Min(CDiv(w + k.pad_w, k.stride_w) + 1, k.pooled_width)]

\* a slip: the "+ 1" of phend and pwend left out
PoolBackRangeShort(k, h, w) ==
    [phstart |-> IF h + k.pad_h < k.kernel_h THEN 0
                 ELSE CDiv(h + k.pad_h - k.kernel_h, k.stride_h) + 1,
     phend   |-> Min(CDiv(h + k.pad_h, k.stride_h), k.pooled_height),
     pwstart |-> IF w + k.pad_w < k.kernel_w THEN 0
                 ELSE CDiv(w + k.pad_w - k.kernel_w, k.stride_w) + 1,
     pwend   |-> Min(CDiv(w + k.pad_w, k.stride_w), k.pooled_width)]

\* the output range [phstart, phend) x [pwstart, pwend) MaxPoolBackward scans
\* for input cell (h, w)
PoolBackRange(k, h, w) ==
    [phstart |-> IF h + k.pad_h < k.kernel_h THEN 0
                 ELSE CDiv(h + k.pad_h - k.kernel_h, k.stride_h) + 1,
     phend   |-> Min(CDiv(h + k.pad_h, k.stride_h) + 1, k.pooled_height),
     pwstart |-> IF w + k.pad_w < k.kernel_w THEN 0
                 ELSE CDiv(w + k.pad_w - k.kernel_w, k.stride_w) + 1,
     pwend   |-> Min(CDiv(w + k.pad_w, k.stride_w) + 1, k.pooled_width)]

\* the two loops of MaxPoolBackward over [ph, phend) x [pw, pwend), the inner
\* one restarting at pwstart; gradient is the running sum
RECURSIVE ScanOutputs(_, _, _, _, _, _, _, _, _)
ScanOutputs(type, k, top_diff, mask, offset, hw, ph, pw, rng_gradient) ==
    LET rng == rng_gradient[1]
        gradient == rng_gradient[2]
    IN IF ph >= rng.phend THEN gradient
       ELSE IF pw >= rng.pwend
       THEN ScanOutputs(type, k, top_diff, mask, offset, hw, ph + 1,
                        rng.pwstart, rng_gradient)
       ELSE LET at == offset + ph * k.pooled_width + pw
                g == IF At(mask, at) = hw
                     THEN gradient + ToFloat(type, At(top_diff, at))
                     ELSE gradient
            IN ScanOutputs(type, k, top_diff, mask, offset, hw, ph, pw + 1,
                           <<rng, g>>)

\* one iteration of MaxPoolBackward's loop: what it stores at bottom_diff[index]
MaxPoolBackwardAt(type, k, top_diff, mask, index) ==
    LET i == PoolInCoord(k, index)
        rng == PoolBackRange(k, i.h, i.w)
        offset == (i.n * k.channels + i.c) * k.pooled_height * k.pooled_width
    IN FromFloat(type, ScanOutputs(type, k, top_diff, mask, offset,
                                   FlatIndex(i.h, i.w, k.width),
                                   rng.phstart, rng.pwstart, <<rng, 0>>))

\* the kernel: bottom_diff once every index below nthreads was visited
MaxPoolBackward(type, nthreads, k, top_diff, mask) ==
    [i \in 1..nthreads |-> MaxPoolBackwardAt(type, k, top_diff, mask, i - 1)]

(***************************************************************************)
(* max_pool_with_index_hip.cc: the operators.                              *)
(***************************************************************************)
\* ConvPoolOpBase::SetOutputSize for one spatial dimension: the output size
\* floor((input + pad_total - kernel) / stride) + 1
PooledSize(in, pad_head, pad_tail, kernel, stride) ==
    (in + pad_head + pad_tail - kernel) \div stride + 1

\* ConvPoolOpBase::SetOutputSize(X, Y, channels) in NCHW order: Y's dims;
\* under global pooling every image is pooled to one cell
SetOutputSize(o, X, channels) ==
    IF o.global_pooling THEN <<Dim32(X, 0), channels, 1, 1>>
    ELSE <<Dim32(X, 0), channels,
           PooledSize(Dim32(X, 2), o.pad_t, o.pad_b, o.kernel_h, o.stride_h),
           PooledSize(Dim32(X, 3), o.pad_l, o.pad_r, o.kernel_w, o.stride_w)>>

\* ConvPoolOpBase::ComputePads(dims), dims the input's height and width:
\* under global pooling the kernel becomes the whole image; otherwise, with
\* the explicit pads of the operators here (legacy_pad NOTSET), kernel and
\* pads stay as they were given
ComputePads(o, dims) ==
    IF o.global_pooling
    THEN [o EXCEPT !.kernel_h = dims[1], !.kernel_w = dims[2]]
    ELSE o

\* the operator after SetOutputSize(X, Y, channels), which assigns the kernel
\* as ComputePads does
KernelAfterSetOutputSize(o, X) == ComputePads(o, <<Dim32(X, 2), Dim32(X, 3)>>)

\* the arguments both pooling kernels are launched with
PoolKernelArgs(o, X, pooled_height, pooled_width) ==
    [num |-> Dim32(X, 0), channels |-> Dim32(X, 1),
     height |-> Dim32(X, 2), width |-> Dim32(X, 3),
     pooled_height |-> pooled_height, pooled_width |-> pooled_width,
     kernel_h |-> o.kernel_h, kernel_w |-> o.kernel_w,
     stride_h |-> o.stride_h, stride_w |-> o.stride_w,
     pad_h |-> o.pad_t, pad_w |-> o.pad_l]

\* the run ended in a CAFFE_ENFORCE failure or a CAFFE_THROW
Failed(msg) ==
    /\ status' = msg
    /\ UNCHANGED <<op, blobs, aux, launches>>

\* the messages of the CAFFE_ENFORCE and CAFFE_THROW statements
EnforceFailures ==
    {"Operator only supports 4D tensors", "Unsupported input type",
     "X.ndim() == Y.ndim()", "X.dim32(i) == Y.dim32(i)",
     "dDistance.ndim() == 1", "dDistance.dim32(0) == N"}

IsError(s) == s \in EnforceFailures

\* a slip: mask resized to Y's dims instead of to output_size
MaxPoolWithIndexMaskLikeY(type) ==
    LET X == blobs.X
        Ydims == SetOutputSize(op, X, Dim32(X, 1))
        output_size == Prod(Ydims)
        sized == KernelAfterSetOutputSize(op, X)
        out == MaxPoolForward(type, output_size,
                              PoolKernelArgs(sized, X, Ydims[3], Ydims[4]), X.data)
    IN /\ blobs' = [blobs EXCEPT !.Y = Tensor(type, Ydims, out.top_data),
                                 !.mask = Tensor("int", Ydims, out.mask)]
       /\ op' = sized
       /\ launches' = Append(launches, "MaxPoolForward")
       /\ status' = "done"
       /\ UNCHANGED aux

\* MaxPoolWithIndexOp::DoRunWithType<T>
MaxPoolWithIndexDoRunWithType(type) ==
    LET X == blobs.X
        Ydims == SetOutputSize(op, X, Dim32(X, 1))
        output_size == Prod(Ydims)
        sized == KernelAfterSetOutputSize(op, X)
        out == MaxPoolForward(type, output_size,
                              PoolKernelArgs(sized, X, Ydims[3], Ydims[4]), X.data)
    IN /\ blobs' = [blobs EXCEPT !.Y = Tensor(type, Ydims, out.top_data),
                                 !.mask = Tensor("int", <<output_size>>, out.mask)]
       /\ op' = sized
       /\ launches' = Append(launches, "MaxPoolForward")
       /\ status' = "done"
       /\ UNCHANGED aux

\* MaxPoolWithIndexOp::RunOnDevice
RunMaxPoolWithIndex ==
    /\ op.type = "MaxPoolWithIndex"
    /\ status = "ready"
    /\ IF Ndim(blobs.X) # 4 THEN Failed("Operator only supports 4D tensors")
       ELSE IF blobs.X.type = "float" THEN MaxPoolWithIndexDoRunWithType("float")
       ELSE IF blobs.X.type = "float16" THEN MaxPoolWithIndexDoRunWithType("float16")
       ELSE Failed("Unsupported input type")

\* a slip: dX resized before the rank is checked
MaxPoolWithIndexGradientResizeFirst(type) ==
    /\ blobs' = [blobs EXCEPT !.dX =
                    Tensor(type, blobs.X.dims, [i \in 1..Size(blobs.X) |-> 0])]
    /\ status' = IF Ndim(blobs.X) # 4 THEN "Operator only supports 4D tensors"
                 ELSE "done"
    /\ UNCHANGED <<op, aux, launches>>

\* MaxPoolWithIndexGradientOp::DoRunWithType<T>: the rank is checked, dX is
\* resized like X, ComputePads runs on X's height and width, and the kernel is
\* launched with the kernel and pads the operator holds after that
MaxPoolWithIndexGradientDoRunWithType(type) ==
    LET X == blobs.X
        dY == blobs.dY
    IN IF Ndim(X) # 4 THEN Failed("Operator only supports 4D tensors")
       ELSE LET padded == ComputePads(op, <<Dim32(X, 2), Dim32(X, 3)>>)
            IN /\ blobs' = [blobs EXCEPT !.dX =
                      Tensor(type, X.dims,
                             MaxPoolBackward(type, Size(X),
                                 PoolKernelArgs(padded, X, Dim32(dY, 2),
                                                Dim32(dY, 3)),
                                 dY.data, blobs.mask.data))]
               /\ op' = padded
               /\ launches' = Append(launches, "MaxPoolBackward")
               /\ status' = "done"
               /\ UNCHANGED aux

\* MaxPoolWithIndexGradientOp::RunOnDevice
RunMaxPoolWithIndexGradient ==
    /\ op.type = "MaxPoolWithIndexGradient"
    /\ status = "ready"
    /\ IF blobs.X.type = "float" THEN MaxPoolWithIndexGradientDoRunWithType("float")
       ELSE IF blobs.X.type = "float16"
       THEN MaxPoolWithIndexGradientDoRunWithType("float16")
       ELSE Failed("Unsupported input type")

\* the upstream gradients the backward pass is fed: all ones, or a different
\* value at every output cell
UpstreamGradients(n) == {[i \in 1..n |-> 1], [i \in 1..n |-> i + 1]}

\* GetMaxPoolWithIndexGradient: the gradient operator reads I(0) = X,
\* GO(0) = dY and O(1) = the forward's mask, and writes GI(0) = dX
GetMaxPoolWithIndexGradient ==
    /\ op.type = "MaxPoolWithIndex"
    /\ status = "done"
    /\ \E g \in UpstreamGradients(Size(blobs.Y)) :
          blobs' = [blobs EXCEPT !.dY = Tensor(blobs.Y.type, blobs.Y.dims, g)]
    /\ op' = [op EXCEPT !.type = "MaxPoolWithIndexGradient"]
    /\ status' = "ready"
    /\ UNCHANGED <<aux, launches>>

(***************************************************************************)
(* Pooling: the operator instances and inputs explored.                    *)
(***************************************************************************)
\* the 4-D shapes of at most MaxPoolElems elements
PoolShapes ==
    {d \in [1..4 -> 1..MaxPoolElems] : Prod(d) <= MaxPoolElems}

\* element values: float: the sentinel -FLT_MAX and two values that can tie;
\* float16: minus infinity and one finite value
PoolValues(type) == IF type = "float" THEN {-FLT_MAX, 0, 1} ELSE {-Inf, 1}

PoolKernels == {1, 2}

PoolStrides == {1, 2}

PoolPads == {0, 1}

\* kernel, stride and pad arguments (pad applied on both sides); global
\* pooling is accepted with stride 1 and no pad only
PoolArgs ==
    {o \in {[type |-> "MaxPoolWithIndex", global_pooling |-> g,
             kernel_h |-> kh, kernel_w |-> kw, stride_h |-> sh, stride_w |-> sw,
             pad_t |-> pt, pad_l |-> pl, pad_b |-> pt, pad_r |-> pl] :
               g \in BOOLEAN,
               kh \in PoolKernels, kw \in PoolKernels, sh \in PoolStrides,
               sw \in PoolStrides, pt \in PoolPads, pl \in PoolPads} :
        o.global_pooling =>
            o.stride_h = 1 /\ o.stride_w = 1 /\ o.pad_t = 0 /\ o.pad_l = 0}

\* SetOutputSize accepts the input: the padded input holds one kernel, or
\* the kernel is the image
FitsKernel(o, dims) ==
    \/ o.global_pooling
    \/ /\ dims[3] + o.pad_t + o.pad_b >= o.kernel_h
       /\ dims[4] + o.pad_l + o.pad_r >= o.kernel_w

PoolBlobs(X) ==
    [X |-> X, Y |-> NoTensor, mask |-> NoTensor, dY |-> NoTensor, dX |-> NoTensor]

\* a forward operator on a 4-D float or float16 input
InitPoolForward ==
    \E o \in PoolArgs, d \in PoolShapes, t \in {"float", "float16"} :
      \E data \in Buffers(Prod(d), PoolValues(t)) :
        /\ FitsKernel(o, d)
        /\ op = o
        /\ blobs = PoolBlobs(Tensor(t, d, data))

\* a forward or gradient operator on an input of another rank or type
InitPoolRejected ==
    \E ty \in {"MaxPoolWithIndex", "MaxPoolWithIndexGradient"},
       d \in {<<1, 1, 2>>, <<2, 1>>, <<1, 1, 1, 1, 1>>, <<1, 1, 1, 1>>},
       t \in {"float", "float16", "double"} :
        /\ Len(d) # 4 \/ t = "double"
        /\ op = [type |-> ty, global_pooling |-> FALSE,
                 kernel_h |-> 1, kernel_w |-> 1, stride_h |-> 1,
                 stride_w |-> 1, pad_t |-> 0, pad_l |-> 0, pad_b |-> 0, pad_r |-> 0]
        /\ blobs = IF ty = "MaxPoolWithIndex"
                   THEN PoolBlobs(Tensor(t, d, [i \in 1..Prod(d) |-> 0]))
                   ELSE [PoolBlobs(Tensor(t, d, [i \in 1..Prod(d) |-> 0]))
                           EXCEPT !.dY = Tensor(t, <<1, 1, 1, 1>>, <<1>>),
                                  !.mask = Tensor("int", <<1>>, <<0>>)]

InitPool ==
    /\ InitPoolForward \/ InitPoolRejected
    /\ aux = NoTensor
    /\ launches = <<>>
    /\ status = "ready"

NextPool ==
    \/ RunMaxPoolWithIndex
    \/ GetMaxPoolWithIndexGradient
    \/ RunMaxPoolWithIndexGradient

SpecPool == InitPool /\ [][NextPool]_vars

(***************************************************************************)
(* Claims about max pooling (checked under SpecPool).                      *)
(***************************************************************************)
\* the forward pass has written Y and mask
PoolForwardDone == blobs.Y # NoTensor

\* the backward pass has written dX
PoolBackwardDone == blobs.dX # NoTensor

\* the cells (h, w) of the input inside the window of output cell (ph, pw),
\* clamped to the input
WindowCells(ph, pw) ==
    {hw \in (0..(Dim32(blobs.X, 2) - 1)) \X (0..(Dim32(blobs.X, 3) - 1)) :
        /\ ph * op.stride_h - op.pad_t <= hw[1]
        /\ hw[1] < ph * op.stride_h - op.pad_t + op.kernel_h
        /\ pw * op.stride_w - op.pad_l <= hw[2]
        /\ hw[2] < pw * op.stride_w - op.pad_l + op.kernel_w}

\* X[n, c, h, w]
PoolX(n, c, h, w) ==
    At(blobs.X.data, ((n * Dim32(blobs.X, 1) + c) * Dim32(blobs.X, 2) + h)
                        * Dim32(blobs.X, 3) + w)

\* the flat position of output cell (n, c, ph, pw)
PoolOutIndex(n, c, ph, pw) ==
    ((n * Dim32(blobs.Y, 1) + c) * Dim32(blobs.Y, 2) + ph) * Dim32(blobs.Y, 3) + pw

\* mask[n, c, ph, pw] names a cell of the clamped window, and X there is Y
ArgmaxConsistentAt(n, c, ph, pw) ==
    \E hw \in WindowCells(ph, pw) :
        /\ At(blobs.mask.data, PoolOutIndex(n, c, ph, pw))
              = hw[1] * Dim32(blobs.X, 3) + hw[2]
        /\ PoolX(n, c, hw[1], hw[2]) = At(blobs.Y.data, PoolOutIndex(n, c, ph, pw))

\* the slices (n, c) and the output cells (ph, pw)
PoolSlices == (0..(Dim32(blobs.X, 0) - 1)) \X (0..(Dim32(blobs.X, 1) - 1))

PoolOutCells == (0..(Dim32(blobs.Y, 2) - 1)) \X (0..(Dim32(blobs.Y, 3) - 1))

PoolInCells == (0..(Dim32(blobs.X, 2) - 1)) \X (0..(Dim32(blobs.X, 3) - 1))

\* C1 as claimed: after the forward pass, for any configuration, every output
\* cell's mask is the flat index of a cell of its clamped window, and X there
\* equals Y.
C1_ArgmaxConsistentAlways ==
    PoolForwardDone =>
        \A s \in PoolSlices, p \in PoolOutCells :
            ArgmaxConsistentAt(s[1], s[2], p[1], p[2])

\* C1 as amended: after the forward pass, every output cell whose clamped
\* window holds a value above -FLT_MAX has as mask the flat index of a cell of
\* that window, and X there equals Y; every other output cell (an empty
\* window, or no value above -FLT_MAX) has mask -1.
C1_ArgmaxConsistent ==
    PoolForwardDone =>
        \A s \in PoolSlices, p \in PoolOutCells :
            IF \E hw \in WindowCells(p[1], p[2]) :
                   PoolX(s[1], s[2], hw[1], hw[2]) > -FLT_MAX
            THEN ArgmaxConsistentAt(s[1], s[2], p[1], p[2])
            ELSE At(blobs.mask.data, PoolOutIndex(s[1], s[2], p[1], p[2])) = -1

\* C1's case: a forward pass over a second slice whose window of four cells
\* has its maximum at the last cell
C1_Witness ==
    /\ PoolForwardDone
    /\ \E s \in PoolSlices, p \in PoolOutCells :
          /\ Cardinality(WindowCells(p[1], p[2])) >= 2
          /\ At(blobs.mask.data, PoolOutIndex(s[1], s[2], p[1], p[2])) >= 1
          /\ ArgmaxConsistentAt(s[1], s[2], p[1], p[2])

\* sum of f over a finite set
RECURSIVE SumOver(_, _)
SumOver(S, f) ==
    IF S = {} THEN 0
    ELSE LET x == CHOOSE y \in S : TRUE IN f[x] + SumOver(S \ {x}, f)

\* dY[n, c, ph, pw] and dX[n, c, h, w]
PoolDY(n, c, ph, pw) == At(blobs.dY.data, PoolOutIndex(n, c, ph, pw))

PoolDX(n, c, h, w) ==
    At(blobs.dX.data, ((n * Dim32(blobs.X, 1) + c) * Dim32(blobs.X, 2) + h)
                         * Dim32(blobs.X, 3) + w)

\* the output cells of slice (n, c) whose recorded argmax is input cell (h, w)
ArgmaxOf(n, c, h, w) ==
    {p \in PoolOutCells :
        At(blobs.mask.data, PoolOutIndex(n, c, p[1], p[2]))
            = h * Dim32(blobs.X, 3) + w}

\* dX is zero at every cell that is no output cell's recorded argmax
NoLeakage ==
    \A s \in PoolSlices, hw \in PoolInCells :
        ArgmaxOf(s[1], s[2], hw[1], hw[2]) = {}
            => PoolDX(s[1], s[2], hw[1], hw[2]) = 0

\* C2 as claimed: after forward and backward, in every slice the sum of dX
\* equals the sum of dY over all output cells, and dX is zero off the argmax
\* cells.
C2_GradientConservedAlways ==
    PoolBackwardDone =>
        /\ \A s \in PoolSlices :
              SumOver(PoolInCells,
                      [hw \in PoolInCells |-> PoolDX(s[1], s[2], hw[1], hw[2])])
              = SumOver(PoolOutCells,
                        [p \in PoolOutCells |-> PoolDY(s[1], s[2], p[1], p[2])])
        /\ NoLeakage

\* C2 as amended: after forward and backward, in every slice the sum of dX
\* equals the sum of dY over the output cells whose mask is not -1, and dX is
\* zero off the argmax cells.
C2_GradientConserved ==
    PoolBackwardDone =>
        /\ \A s \in PoolSlices :
              LET routed == {p \in PoolOutCells :
                               At(blobs.mask.data,
                                  PoolOutIndex(s[1], s[2], p[1], p[2])) # -1}
              IN SumOver(PoolInCells,
                         [hw \in PoolInCells |-> PoolDX(s[1], s[2], hw[1], hw[2])])
                 = SumOver(routed,
                           [p \in routed |-> PoolDY(s[1], s[2], p[1], p[2])])
        /\ NoLeakage

\* C2's case: a backward pass in which one input cell is the argmax of two
\* output cells and another cell of its slice of none
C2_Witness ==
    /\ PoolBackwardDone
    /\ \E s \in PoolSlices, hw \in PoolInCells, other \in PoolInCells :
          /\ Cardinality(ArgmaxOf(s[1], s[2], hw[1], hw[2])) >= 2
          /\ PoolDX(s[1], s[2], hw[1], hw[2]) >= 2
          /\ ArgmaxOf(s[1], s[2], other[1], other[2]) = {}
          /\ PoolDX(s[1], s[2], other[1], other[2]) = 0

\* the input is one the pooling operators reject
PoolRejects == Ndim(blobs.X) # 4 \/ blobs.X.type \notin {"float", "float16"}

\* C8: a run of MaxPoolWithIndex or MaxPoolWithIndexGradient on an input of
\* rank other than 4, or of a type other than float and float16, ends in an
\* error, with no output resized or written and no kernel launched.
C8_PoolRejectsBadInput ==
    (PoolRejects /\ status # "ready") =>
        /\ IsError(status)
        /\ op.type = "MaxPoolWithIndex" => blobs.Y = NoTensor /\ blobs.mask = NoTensor
        /\ blobs.dX = NoTensor
        /\ launches = <<>>

\* C8's case: the gradient operator has failed on a float input of rank 3
C8_Witness ==
    /\ op.type = "MaxPoolWithIndexGradient"
    /\ Ndim(blobs.X) = 3
    /\ blobs.X.type = "float"
    /\ IsError(status)

(***************************************************************************)
(* one_hot_ops_hip.cc.                                                     *)
(*                                                                         *)
(* op = [type, batch_size, index_size]; blobs = [indices, output].  The    *)
(* caller has resized output to (batch_size, index_size) and left its old  *)
(* contents in place.                                                      *)
(***************************************************************************)
\* the flat positions thread i stores to, with the row stride the kernel
\* does not use
OneHotTargetBatchStride(i, batch_size, index_size, indices) ==
    i * batch_size + At(indices, i)

\* output[i * index_size + indices[i]]: the flat position thread i stores to
OneHotTarget(i, batch_size, index_size, indices) ==
    i * index_size + At(indices, i)

\* the stores of the kernel that fall outside output's n elements
OneHotOutOfBounds(batch_size, index_size, indices, n) ==
    \E i \in 0..(batch_size - 1) :
        LET t == OneHotTarget(i, batch_size, index_size, indices)
        IN  t < 0 \/ t >= n

\* OneHotOpKernel: every i in [0, batch_size) stores 1 at its target, the
\* other elements of output keep what they held
OneHotOpKernel(batch_size, index_size, indices, output) ==
    [j \in 1..Len(output) |->
        IF \E i \in 0..(batch_size - 1) :
               OneHotTarget(i, batch_size, index_size, indices) = j - 1
        THEN 1
        ELSE output[j]]

\* math::Set(n, 0., output_ptr)
OneHotZeroFill(n) == [j \in 1..n |-> 0]

\* OneHotOp<HIPContext>::DoOneHotOp.  A store outside output is undefined
\* behaviour: it is lost (the run goes on) or the device reports a memory
\* fault.
DoOneHotOp ==
    /\ op.type = "OneHot"
    /\ status = "ready"
    /\ LET indices == blobs.indices.data
           n       == Size(blobs.output)
           zeroed  == OneHotZeroFill(n)
           output  == OneHotOpKernel(op.batch_size, op.index_size, indices, zeroed)
       IN  /\ blobs' = [blobs EXCEPT !.output.data = output]
           /\ launches' = Append(launches, "OneHotOpKernel")
           /\ IF OneHotOutOfBounds(op.batch_size, op.index_size, indices, n)
              THEN status' \in {"done", "memory fault"}
              ELSE status' = "done"
    /\ UNCHANGED <<op, aux>>

\* the index values explored: every category, and one value off each end
OneHotIndexValues(index_size) == (-1)..index_size

\* what the output buffer held before the run
OneHotStale(n) == {[j \in 1..n |-> 0], [j \in 1..n |-> 5]}

InitOneHot ==
    /\ \E batch_size \in 1..MaxBatch, index_size \in 1..MaxCategories :
         /\ op = [type |-> "OneHot", batch_size |-> batch_size,
                  index_size |-> index_size]
         /\ \E indices \in Buffers(batch_size, OneHotIndexValues(index_size)),
               stale \in OneHotStale(batch_size * index_size) :
              blobs = [indices |-> Tensor("int64", <<batch_size>>, indices),
                       output  |-> Tensor("float", <<batch_size, index_size>>, stale)]
    /\ aux = NoTensor
    /\ launches = <<>>
    /\ status = "ready"

NextOneHot == DoOneHotOp

SpecOneHot == InitOneHot /\ [][NextOneHot]_vars

(***************************************************************************)
(* Claims about one-hot encoding (checked under SpecOneHot).               *)
(***************************************************************************)
\* every index names a category
OneHotIndicesValid ==
    \A i \in 0..(op.batch_size - 1) :
        At(blobs.indices.data, i) \in 0..(op.index_size - 1)

\* output[i, j]
OneHotOutput(i, j) == At(blobs.output.data, i * op.index_size + j)

\* C3: after OneHot has run with batch size B, category count K and every
\* index in [0, K), row i of the output holds 1 at column indices[i] and 0
\* at every other column, so each row holds exactly one 1.
C3_OneHotRows ==
    (op.type = "OneHot" /\ status = "done" /\ OneHotIndicesValid) =>
        \A i \in 0..(op.batch_size - 1) :
            /\ OneHotOutput(i, At(blobs.indices.data, i)) = 1
            /\ \A j \in 0..(op.index_size - 1) :
                   j # At(blobs.indices.data, i) => OneHotOutput(i, j) = 0
            /\ Cardinality({j \in 0..(op.index_size - 1) : OneHotOutput(i, j) = 1}) = 1

\* a finished run over several rows and several categories whose rows name
\* different categories, none of them the first
C3_Witness ==
    /\ op.type = "OneHot" /\ status = "done" /\ OneHotIndicesValid
    /\ op.batch_size >= 2 /\ op.index_size >= 3
    /\ At(blobs.indices.data, 0) = 2
    /\ At(blobs.indices.data, 1) = 1
    /\ OneHotOutput(0, 2) = 1 /\ OneHotOutput(1, 1) = 1 /\ OneHotOutput(1, 2) = 0

(***************************************************************************)
(* pad_op_hip.cc: the kernels.                                             *)
(*                                                                         *)
(* The kernel arguments are one record k: num, channels, height, width,    *)
(* padded_height, padded_width, pad_t, pad_l.                              *)
(***************************************************************************)
\* a slip: pad_t and pad_l exchanged
PadSourceConstSwapped(k, ph, pw) == [h |-> ph - k.pad_l, w |-> pw - k.pad_t]

\* PadImageConst*: the input coordinate padded cell (ph, pw) is copied from;
\* the kernel stores the fill value when it lies outside the image
PadSourceConst(k, ph, pw) == [h |-> ph - k.pad_t, w |-> pw - k.pad_l]

\* a slip: the reflection below and right repeats the edge ("- 1" for "- 2")
PadSourceReflectRepeatEdge(k, ph, pw) ==
    LET h0 == ph - k.pad_t
        w0 == pw - k.pad_l
        h1 == Max(h0, -h0)
        w1 == Max(w0, -w0)
    IN  [h |-> Min(h1, 2 * k.height - h1 - 1),
         w |-> Min(w1, 2 * k.width - w1 - 1)]

\* PadImageReflect*: the input coordinate padded cell (ph, pw) is copied from
PadSourceReflect(k, ph, pw) ==
    LET h0 == ph - k.pad_t
        w0 == pw - k.pad_l
        h1 == Max(h0, -h0)
        w1 == Max(w0, -w0)
    IN  [h |-> Min(h1, 2 * k.height - h1 - 2),
         w |-> Min(w1, 2 * k.width - w1 - 2)]

\* a slip: the padded coordinate clamped before the pad is subtracted
PadSourceEdgeClampFirst(k, ph, pw) ==
    [h |-> Max(Min(k.height - 1, ph) - k.pad_t, 0),
     w |-> Max(Min(k.width - 1, pw) - k.pad_l, 0)]

\* PadImageEdge*: the input coordinate padded cell (ph, pw) is copied from
PadSourceEdge(k, ph, pw) ==
    [h |-> Min(k.height - 1, Max(ph - k.pad_t, 0)),
     w |-> Min(k.width - 1, Max(pw - k.pad_l, 0))]

\* PadImageGradientConstNCHW: dX[index] is gathered from one padded cell
PadImageGradientConstNCHW(nthreads, top_diff, k) ==
    [j \in 1..nthreads |->
        LET index == j - 1
            nc0   == CDiv(index, k.width)
            pw    == CMod(index, k.width) + k.pad_l
            ph    == CMod(nc0, k.height) + k.pad_t
            nc    == CDiv(nc0, k.height)
        IN  At(top_diff, (nc * k.padded_height + ph) * k.padded_width + pw)]

\* PadImageGradientConstNHWC
PadImageGradientConstNHWC(nthreads, top_diff, k) ==
    [j \in 1..nthreads |->
        LET index == j - 1
            n0    == CDiv(index, k.channels)
            c     == CMod(index, k.channels)
            pw    == CMod(n0, k.width) + k.pad_l
            n1    == CDiv(n0, k.width)
            ph    == CMod(n1, k.height) + k.pad_t
            n     == CDiv(n1, k.height)
        IN  At(top_diff, ((n * k.padded_height + ph) * k.padded_width + pw) * k.channels + c)]

\* the reflection of the gradient kernels, repeating the edge
PadGradReflectCoordRepeatEdge(x, size) ==
    LET a == Max(x, -x) IN Min(a, 2 * size - a - 1)

\* h = max(h, -h); h = min(h, 2 * height - h - 2) of the gradient kernels
PadGradReflectCoord(x, size) ==
    LET a == Max(x, -x) IN Min(a, 2 * size - a - 2)

\* h = min(height - 1, max(ph - pad_t, 0)) of the gradient kernels
PadGradEdgeCoord(x, size) == Min(size - 1, Max(x, 0))

\* the bottom_diff position padded cell index is added to, NCHW kernels
PadGradTargetNCHW(mode, k, index) ==
    LET nc0 == CDiv(index, k.padded_width)
        pw  == CMod(index, k.padded_width)
        ph  == CMod(nc0, k.padded_height)
        nc  == CDiv(nc0, k.padded_height)
        h   == IF mode = "reflect" THEN PadGradReflectCoord(ph - k.pad_t, k.height)
                                   ELSE PadGradEdgeCoord(ph - k.pad_t, k.height)
        w   == IF mode = "reflect" THEN PadGradReflectCoord(pw - k.pad_l, k.width)
                                   ELSE PadGradEdgeCoord(pw - k.pad_l, k.width)
    IN  (nc * k.height + h) * k.width + w

\* the bottom_diff position padded cell index is added to, NHWC kernels
PadGradTargetNHWC(mode, k, index) ==
    LET n0 == CDiv(index, k.channels)
        c  == CMod(index, k.channels)
        pw == CMod(n0, k.padded_width)
        n1 == CDiv(n0, k.padded_width)
        ph == CMod(n1, k.padded_height)
        n  == CDiv(n1, k.padded_height)
        h  == IF mode = "reflect" THEN PadGradReflectCoord(ph - k.pad_t, k.height)
                                  ELSE PadGradEdgeCoord(ph - k.pad_t, k.height)
        w  == IF mode = "reflect" THEN PadGradReflectCoord(pw - k.pad_l, k.width)
                                  ELSE PadGradEdgeCoord(pw - k.pad_l, k.width)
    IN  ((n * k.height + h) * k.width + w) * k.channels + c

PadGradTarget(order, mode, k, index) ==
    IF order = "NCHW" THEN PadGradTargetNCHW(mode, k, index)
                      ELSE PadGradTargetNHWC(mode, k, index)

\* atomicAdd(&bottom_diff[target], top_diff[index]) for index, index + 1, ...
\* up to nthreads - 1, the indices of HIP_1D_KERNEL_LOOP(index, nthreads).
\* An add is exact, so the order of the adds does not show in the sums.  An
\* add whose target lies outside bottom_diff changes no element of it.
RECURSIVE PadAtomicAdds(_, _, _, _, _, _, _)
PadAtomicAdds(order, mode, nthreads, k, top_diff, index, bottom_diff) ==
    IF index >= nthreads THEN bottom_diff
    ELSE LET t == PadGradTarget(order, mode, k, index)
         IN  PadAtomicAdds(order, mode, nthreads, k, top_diff, index + 1,
                 IF t >= 0 /\ t < Len(bottom_diff)
                 THEN [bottom_diff EXCEPT ![t + 1] = @ + At(top_diff, index)]
                 ELSE bottom_diff)

\* PadImageGradientReflectNCHW, PadImageGradientEdgeNCHW and their NHWC twins:
\* the first nthreads elements of top_diff are added into bottom_diff
PadImageGradientAccumulate(order, mode, nthreads, top_diff, k, bottom_diff) ==
    PadAtomicAdds(order, mode, nthreads, k, top_diff, 0, bottom_diff)

\* one of the kernel's adds goes to an address outside bottom_diff
PadGradOutOfBounds(order, mode, nthreads, k, n) ==
    \E index \in 0..(nthreads - 1) :
        LET t == PadGradTarget(order, mode, k, index) IN t < 0 \/ t >= n

(***************************************************************************)
(* pad_op_hip.cc: PadImageGradientOp.                                      *)
(*                                                                         *)
(* op = [type, mode, order, pad_t, pad_l, pad_b, pad_r];                   *)
(* blobs = [dY, dX].                                                       *)
(***************************************************************************)
\* the dimension of dY that holds the padded height (width, channels)
PadHeightAxis(order) == IF order = "NCHW" THEN 2 ELSE 1

PadWidthAxis(order) == IF order = "NCHW" THEN 3 ELSE 2

PadChannelAxis(order) == IF order = "NCHW" THEN 1 ELSE 3

\* dX->Resize(...): the dims of dX
PadGradientDims(o, dY) ==
    [i \in 1..4 |->
        IF i - 1 = PadHeightAxis(o.order) THEN dY.dims[i] - o.pad_t - o.pad_b
        ELSE IF i - 1 = PadWidthAxis(o.order) THEN dY.dims[i] - o.pad_l - o.pad_r
        ELSE dY.dims[i]]

PadKernelArgs(o, dXdims, dY) ==
    [num           |-> dXdims[1],
     channels      |-> dXdims[PadChannelAxis(o.order) + 1],
     height        |-> dXdims[PadHeightAxis(o.order) + 1],
     width         |-> dXdims[PadWidthAxis(o.order) + 1],
     padded_height |-> Dim32(dY, PadHeightAxis(o.order)),
     padded_width  |-> Dim32(dY, PadWidthAxis(o.order)),
     pad_t         |-> o.pad_t,
     pad_l         |-> o.pad_l]

\* math::Set(output_size, 0, dXdata)
PadZeroFill(n) == [j \in 1..n |-> 0]

\* PadImageGradientOp::RunOnDeviceWithOrderNCHW / ...NHWC.  An atomicAdd to
\* an address outside dX is undefined behaviour: it changes nothing of dX
\* and the run goes on, or the device reports a memory fault.
RunPadImageGradient ==
    /\ op.type = "PadImageGradient"
    /\ status = "ready"
    /\ LET dY          == blobs.dY
           dXdims      == PadGradientDims(op, dY)
           input_size  == Size(dY)
           output_size == Prod(dXdims)
           k           == PadKernelArgs(op, dXdims, dY)
           zeroed      == PadZeroFill(output_size)
           dXdata      ==
               IF op.mode = "constant"
               THEN IF op.order = "NCHW"
                    THEN PadImageGradientConstNCHW(output_size, dY.data, k)
                    ELSE PadImageGradientConstNHWC(output_size, dY.data, k)
               ELSE PadImageGradientAccumulate(op.order, op.mode, input_size,
                                               dY.data, k, zeroed)
       IN  /\ blobs' = [blobs EXCEPT !.dX = Tensor("float", dXdims, dXdata)]
           /\ launches' = Append(launches, <<"PadImageGradient", op.mode, op.order>>)
           /\ IF op.mode # "constant"
                 /\ PadGradOutOfBounds(op.order, op.mode, input_size, k, output_size)
              THEN status' \in {"done", "memory fault"}
              ELSE status' = "done"
    /\ UNCHANGED <<op, aux>>

(***************************************************************************)
(* Padding: the operator instances and inputs explored.                    *)
(***************************************************************************)
\* (num, channels, height, width) of the unpadded image
PadShapes ==
    {d \in [1..4 -> 1..MaxPadDim] :
        d[1] <= 2 /\ d[2] <= 2 /\ Prod(d) <= MaxPadDim * MaxPadDim}

PadModes == {"constant", "reflect", "edge"}

PadOrders == {"NCHW", "NHWC"}

\* pad_t and pad_l; pad_b and pad_r
PadHeadPads == {0, 1, 2}

PadTailPads == {0, 1}

\* the upstream gradient: all ones, or a different value in every cell
PadUpstreamGradients(n) == {[i \in 1..n |-> 1], [i \in 1..n |-> i + 1]}

\* the dims of the padded tensor in the operator's layout
PaddedDims(o, d) ==
    IF o.order = "NCHW"
    THEN <<d[1], d[2], d[3] + o.pad_t + o.pad_b, d[4] + o.pad_l + o.pad_r>>
    ELSE <<d[1], d[3] + o.pad_t + o.pad_b, d[4] + o.pad_l + o.pad_r, d[2]>>

InitPad ==
    /\ \E mode \in PadModes, order \in PadOrders,
          pad_t \in PadHeadPads, pad_l \in PadHeadPads,
          pad_b \in PadTailPads, pad_r \in PadTailPads, d \in PadShapes :
         /\ op = [type |-> "PadImageGradient", mode |-> mode, order |-> order,
                  pad_t |-> pad_t, pad_l |-> pad_l, pad_b |-> pad_b, pad_r |-> pad_r]
         /\ \E dYdata \in PadUpstreamGradients(Prod(PaddedDims(op, d))) :
              blobs = [dY |-> Tensor("float", PaddedDims(op, d), dYdata),
                       dX |-> NoTensor]
    /\ aux = NoTensor
    /\ launches = <<>>
    /\ status = "ready"

NextPad == RunPadImageGradient

SpecPad == InitPad /\ [][NextPad]_vars

(***************************************************************************)
(* Claims about padding (checked under SpecPad).                           *)
(***************************************************************************)
\* the kernel arguments of the finished run
PadK == PadKernelArgs(op, blobs.dX.dims, blobs.dY)

\* dX at input cell (n, c, h, w)
PadDX(n, c, h, w) ==
    LET k == PadK
    IN  At(blobs.dX.data,
           IF op.order = "NCHW" THEN ((n * k.channels + c) * k.height + h) * k.width + w
                                ELSE ((n * k.height + h) * k.width + w) * k.channels + c)

\* the input coordinate the forward pass copies padded cell (ph, pw) from
PadForwardSource(ph, pw) ==
    IF op.mode = "constant" THEN PadSourceConst(PadK, ph, pw)
    ELSE IF op.mode = "reflect" THEN PadSourceReflect(PadK, ph, pw)
    ELSE PadSourceEdge(PadK, ph, pw)

\* the number of padded cells of a slice whose forward source is (h, w)
PadCount(h, w) ==
    Cardinality({p \in (0..(PadK.padded_height - 1)) \X (0..(PadK.padded_width - 1)) :
                    PadForwardSource(p[1], p[2]) = [h |-> h, w |-> w]})

PadAllOnes == \A i \in 1..Len(blobs.dY.data) : blobs.dY.data[i] = 1

\* every pad is smaller than the dimension it pads
PadsBelowDims ==
    /\ op.pad_t < PadK.height /\ op.pad_b < PadK.height
    /\ op.pad_l < PadK.width /\ op.pad_r < PadK.width

\* the corners whose two adjacent pads are positive; the interior cells
PadPaddedCorners ==
    {p \in {0, PadK.height - 1} \X {0, PadK.width - 1} :
        /\ (p[1] = 0 /\ op.pad_t > 0) \/ (p[1] = PadK.height - 1 /\ op.pad_b > 0)
        /\ (p[2] = 0 /\ op.pad_l > 0) \/ (p[2] = PadK.width - 1 /\ op.pad_r > 0)}

PadInterior == (1..(PadK.height - 2)) \X (1..(PadK.width - 2))

\* what the claim says of dX, for the finished run in the state
PadCounts ==
    \A n \in 0..(PadK.num - 1), c \in 0..(PadK.channels - 1) :
        /\ \A h \in 0..(PadK.height - 1), w \in 0..(PadK.width - 1) :
              /\ PadDX(n, c, h, w) = PadCount(h, w)
              /\ op.mode = "constant" => PadDX(n, c, h, w) = 1
              /\ op.mode # "constant" => PadDX(n, c, h, w) >= 1
        /\ op.mode = "edge" =>
              \A p \in PadPaddedCorners, q \in PadInterior :
                  PadDX(n, c, p[1], p[2]) > PadDX(n, c, q[1], q[2])

\* C4 as stated: PadImageGradient on an all-ones upstream gradient leaves at
\* each input cell the number of padded cells whose forward source is that
\* cell, in every mode and for every pad.
C4_PadCountsAlways ==
    (op.type = "PadImageGradient" /\ status # "ready" /\ PadAllOnes) => PadCounts

\* C4, amended: PadImageGradient on an all-ones upstream gradient leaves at
\* each input cell the number of padded cells whose forward source is that
\* cell (1 in constant mode, at least 1 in reflect and edge mode, and more at
\* an edge-mode corner with two positive adjacent pads than at an interior
\* cell), in reflect mode provided every pad is smaller than the dimension
\* it pads.
C4_PadCounts ==
    (/\ op.type = "PadImageGradient" /\ status # "ready" /\ PadAllOnes
     /\ op.mode = "reflect" => PadsBelowDims)
        => status = "done" /\ PadCounts

\* a finished reflect-mode run whose top pad is as large as the amended
\* claim allows: cell (1, 1) of a 3 x 3 image is the source of three padded
\* rows and two padded columns
C4_Witness ==
    /\ op.type = "PadImageGradient" /\ status = "done" /\ PadAllOnes
    /\ op.mode = "reflect" /\ PadsBelowDims
    /\ PadK.height = 3 /\ PadK.width = 3
    /\ op.pad_t = 2 /\ op.pad_b = 1 /\ op.pad_l = 1 /\ op.pad_r = 0
    /\ PadDX(0, 0, 1, 1) = 6
    /\ PadDX(0, 0, 0, 0) = 1

(***************************************************************************)
(* distance_op_hip.cc: numbers.                                            *)
(*                                                                         *)
(* An element of X, Y or of an upstream gradient is an integer number of   *)
(* quanta q = 5e-7 (X and Y of L1DistanceGradient: of u = 5e-13, see       *)
(* L1KEps).  Sums and products of them are integers (of q, or of q^2).  A  *)
(* value that need not be an integer (after / 2.0, sqrt, rsqrt or a        *)
(* division) is the record [num, den, rt], the number                      *)
(* num * sqrt(rt) / den, kept in lowest terms with den > 0 and rt free of  *)
(* squares, so that equal numbers are equal records.  No operation rounds. *)
(***************************************************************************)
\* kEps = 1e-12f, in q^2
KEps == 4

\* L1DistanceGradientKernel uses X and Y in the comparisons of X - Y with
\* kEps only, so their unit is free of the unit of the other tensors: for
\* L1DistanceGradient an element of X or Y counts in units
\* u = kEps / L1KEps = 5e-13, fine enough to tell a difference within kEps
\* of zero from zero (dDistance, dX and dY count in q as everywhere).
\* kEps = 1e-12 of L1DistanceGradientKernel, in u:
L1KEps == 2

RECURSIVE GCD(_, _)
GCD(a, b) == IF b = 0 THEN a ELSE GCD(b, a % b)

\* the largest s with s * s dividing r
RECURSIVE SquarePart(_, _, _)
SquarePart(r, s, best) ==
    IF s * s > r THEN best
    ELSE SquarePart(r, s + 1, IF r % (s * s) = 0 THEN s ELSE best)

\* n * sqrt(r) / d in lowest terms (d # 0, r >= 0)
SNorm(n, d, r) ==
    IF n = 0 \/ r = 0 THEN [num |-> 0, den |-> 1, rt |-> 1]
    ELSE LET s  == SquarePart(r, 1, 1)
             n1 == (IF d < 0 THEN -n ELSE n) * s
             d1 == Abs(d)
             g  == GCD(Abs(n1), d1)
         IN  [num |-> n1 \div g, den |-> d1 \div g, rt |-> r \div (s * s)]

SInt(n) == SNorm(n, 1, 1)

SZero == SInt(0)

SOne == SInt(1)

\* a * b
SMul(a, b) == SNorm(a.num * b.num, a.den * b.den, a.rt * b.rt)

\* a / b (b is not zero)
SDiv(a, b) == SNorm(a.num * b.den, a.den * b.num * b.rt, a.rt * b.rt)

\* -a
SNeg(a) == [a EXCEPT !.num = -a.num]

\* a + b (both multiples of the same root, or one of them zero)
SAdd(a, b) ==
    IF a.num = 0 THEN b
    ELSE IF b.num = 0 THEN a
    ELSE SNorm(a.num * b.den + b.num * a.den, a.den * b.den, a.rt)

\* sqrtf(n), rsqrtf(n) of an integer n > 0
SSqrt(n) == SNorm(1, 1, n)

SInvSqrt(n) == SNorm(1, n, n)

(***************************************************************************)
(* distance_op_hip.cc: the kernels.                                        *)
(*                                                                         *)
(* A row-reducing kernel is launched with min(N, CAFFE_MAXIMUM_NUM_BLOCKS) *)
(* blocks; block b takes the rows b, b + gridDim, ... so every row below N *)
(* is taken by one block.  Within the block thread t sums the elements t,  *)
(* t + blockDim, ... of the row and BlockReduce adds the threads' sums.    *)
(***************************************************************************)
\* for(j = hipThreadIdx_x; j < D; j += hipBlockDim_x) sum += terms[j]
RECURSIVE ThreadPartial(_, _)
ThreadPartial(terms, j) ==
    IF j >= Len(terms) THEN 0
    ELSE At(terms, j) + ThreadPartial(terms, j + CAFFE_HIP_NUM_THREADS)

\* BlockReduce(temp_storage).Sum(partial)
BlockReduceSum(terms) ==
    SumSeq([t \in 1..CAFFE_HIP_NUM_THREADS |-> ThreadPartial(terms, t - 1)])

\* SquaredL2DistanceKernel without the halving
SquaredL2DistanceKernelWhole(N, D, X, Y) ==
    [r \in 1..N |->
        LET i == r - 1
            terms == [c \in 1..D |->
                        LET diff == At(X, i * D + c - 1) - At(Y, i * D + c - 1)
                        IN  diff * diff]
        IN  SNorm(BlockReduceSum(terms), 1, 1)]

SquaredL2DistanceKernel(N, D, X, Y) ==
    [r \in 1..N |->
        LET i == r - 1
            terms == [c \in 1..D |->
                        LET diff == At(X, i * D + c - 1) - At(Y, i * D + c - 1)
                        IN  diff * diff]
        IN  SNorm(BlockReduceSum(terms), 2, 1)]

\* a slip: y[i] = x[i + 1] * alpha[i / D], the last element taking x[0]
StripedScaleKernelNeighbour(N, D, alpha, x) ==
    [r \in 1..(N * D) |-> x[(r % (N * D)) + 1] * At(alpha, CDiv(r - 1, D))]

\* y[i] = x[i] * alpha[i / D]
StripedScaleKernel(N, D, alpha, x) ==
    [r \in 1..(N * D) |-> x[r] * At(alpha, CDiv(r - 1, D))]

\* L1DistanceKernel without fabsf
L1DistanceKernelSigned(N, D, X, Y) ==
    [r \in 1..N |->
        LET i == r - 1
            terms == [c \in 1..D |-> At(X, i * D + c - 1) - At(Y, i * D + c - 1)]
        IN  BlockReduceSum(terms)]

L1DistanceKernel(N, D, X, Y) ==
    [r \in 1..N |->
        LET i == r - 1
            terms == [c \in 1..D |->
                        Abs(At(X, i * D + c - 1) - At(Y, i * D + c - 1))]
        IN  BlockReduceSum(terms)]

\* a slip: dY[i] gets what dX[i] gets
L1DistanceGradientAtSame(D, X, Y, dDistance, i) ==
    LET k == CDiv(i, D)
        d == At(X, i) - At(Y, i)
    IN  IF d < -L1KEps
        THEN [dX |-> -At(dDistance, k), dY |-> -At(dDistance, k)]
        ELSE IF d > L1KEps
        THEN [dX |-> At(dDistance, k), dY |-> At(dDistance, k)]
        ELSE [dX |-> 0, dY |-> 0]

\* a slip: a difference of exactly kEps is taken as beyond it
L1DistanceGradientAtInclusive(D, X, Y, dDistance, i) ==
    LET k == CDiv(i, D)
        d == At(X, i) - At(Y, i)
    IN  IF d <= -L1KEps
        THEN [dX |-> -At(dDistance, k), dY |-> At(dDistance, k)]
        ELSE IF d >= L1KEps
        THEN [dX |-> At(dDistance, k), dY |-> -At(dDistance, k)]
        ELSE [dX |-> 0, dY |-> 0]

\* L1DistanceGradientKernel: the pair (dX[i], dY[i]), from X[i] - Y[i] < -kEps,
\* else X[i] - Y[i] > kEps, else neither; X and Y count in u
L1DistanceGradientAt(D, X, Y, dDistance, i) ==
    LET k == CDiv(i, D)
        d == At(X, i) - At(Y, i)
    IN  IF d < -L1KEps
        THEN [dX |-> -At(dDistance, k), dY |-> At(dDistance, k)]
        ELSE IF d > L1KEps
        THEN [dX |-> At(dDistance, k), dY |-> -At(dDistance, k)]
        ELSE [dX |-> 0, dY |-> 0]

L1DistanceGradientKernel(N, D, X, Y, dDistance) ==
    [dX |-> [r \in 1..(N * D) |-> L1DistanceGradientAt(D, X, Y, dDistance, r - 1).dX],
     dY |-> [r \in 1..(N * D) |-> L1DistanceGradientAt(D, X, Y, dDistance, r - 1).dY]]

DotProductKernel(N, D, X, Y) ==
    [r \in 1..N |->
        LET offset == (r - 1) * D
            terms  == [c \in 1..D |-> At(X, offset + c - 1) * At(Y, offset + c - 1)]
        IN  BlockReduceSum(terms)]

\* result[i] = X[i] * Y[i / D], X of integers and Y of records
BatchedMul(N, D, X, Y) ==
    [r \in 1..(N * D) |-> SMul(SInt(X[r]), At(Y, CDiv(r - 1, D)))]

\* result[i] = -XY[i] / (XN[i] * XN[i]), the factor scale[i] left out
Scale2AxpyScaleNoScale(N, scale, XY, XN) ==
    [r \in 1..N |-> SDiv(SNeg(SInt(XY[r])), SMul(XN[r], XN[r]))]

\* result[i] = -scale[i] * XY[i] / (XN[i] * XN[i])
Scale2AxpyScale(N, scale, XY, XN) ==
    [r \in 1..N |-> SDiv(SMul(SNeg(scale[r]), SInt(XY[r])), SMul(XN[r], XN[r]))]

\* Y[i] += X[i] * alpha[i / D]
BatchedAxpy(N, D, alpha, X, Y) ==
    [r \in 1..(N * D) |-> SAdd(Y[r], SMul(SInt(X[r]), At(alpha, CDiv(r - 1, D))))]

\* dX[i] = Y[i] * dDot[i / D]; dY[i] = X[i] * dDot[i / D]
DotProductGradientKernel(N, D, X, Y, dDot) ==
    [dX |-> [r \in 1..(N * D) |-> Y[r] * At(dDot, CDiv(r - 1, D))],
     dY |-> [r \in 1..(N * D) |-> X[r] * At(dDot, CDiv(r - 1, D))]]

\* math::Maximum taking the smaller of the two
MaximumAsMinimum(N, alpha, x) == [r \in 1..N |-> Min(x[r], alpha)]

\* math::Maximum(N, alpha, x, y): y[i] = max(x[i], alpha)
Maximum(N, alpha, x) == [r \in 1..N |-> Max(x[r], alpha)]

(***************************************************************************)
(* distance_op_hip.cc: the operators.                                      *)
(*                                                                         *)
(* op = [type]; blobs = [X, Y, dDistance, distance, dX, dY, previous]:     *)
(* distance is the forward output (distance, result), dDistance the        *)
(* upstream gradient (dDistance, dDot, dCos), previous the output of an    *)
(* earlier run kept by the caller.                                         *)
(***************************************************************************)
\* X.ndim() > 0 ? X.dim32(0) : 1
DistBatch(X) == IF Ndim(X) > 0 THEN Dim32(X, 0) ELSE 1

\* Tensor::size_from_dim(k)
SizeFromDim(t, k) == Prod(SubSeq(t.dims, k + 1, Len(t.dims)))

\* CAFFE_ENFORCE_EQ(X.ndim(), Y.ndim()) and the loop of
\* CAFFE_ENFORCE_EQ(X.dim32(i), Y.dim32(i)): the failure, or "ok"
DistDimsCheck(X, Y) ==
    IF Ndim(X) # Ndim(Y) THEN "X.ndim() == Y.ndim()"
    ELSE IF \E i \in 0..(Ndim(X) - 1) : Dim32(X, i) # Dim32(Y, i)
    THEN "X.dim32(i) == Y.dim32(i)"
    ELSE "ok"

\* the checks of a gradient operator, in the order of the code
DistGradientCheck(X, Y, dDistance, N) ==
    IF DistDimsCheck(X, Y) # "ok" THEN DistDimsCheck(X, Y)
    ELSE IF Ndim(dDistance) # 1 THEN "dDistance.ndim() == 1"
    ELSE IF Dim32(dDistance, 0) # N THEN "dDistance.dim32(0) == N"
    ELSE "ok"

\* SquaredL2DistanceOp<float, HIPContext>::RunOnDevice.  For N = 0 the code
\* evaluates X.size() / N, an integer division by zero: undefined behaviour,
\* which traps (SIGFPE) or yields some D and lets the run go on; with N = 0
\* the kernel then has no row to visit, whatever D is.
RunSquaredL2Distance ==
    /\ op.type = "SquaredL2Distance"
    /\ status = "ready"
    /\ LET X == blobs.X
           Y == blobs.Y
           N == DistBatch(X)
       IN  IF DistDimsCheck(X, Y) # "ok" THEN Failed(DistDimsCheck(X, Y))
           ELSE IF N = 0
           THEN \/ /\ status' = "SIGFPE"
                   /\ UNCHANGED <<op, blobs, aux, launches>>
                \/ /\ blobs' = [blobs EXCEPT !.distance = Tensor("float", <<N>>, <<>>)]
                   /\ launches' = Append(launches, "SquaredL2DistanceKernel")
                   /\ status' = "division by zero ignored"
                   /\ UNCHANGED <<op, aux>>
           ELSE LET D == CDiv(Size(X), N)
                IN  /\ blobs' = [blobs EXCEPT !.distance =
                           Tensor("float", <<N>>,
                                  SquaredL2DistanceKernel(N, D, X.data, Y.data))]
                    /\ launches' = Append(launches, "SquaredL2DistanceKernel")
                    /\ status' = "done"
                    /\ UNCHANGED <<op, aux>>

\* SquaredL2DistanceGradientOp<float, HIPContext>::RunOnDevice
RunSquaredL2DistanceGradient ==
    /\ op.type = "SquaredL2DistanceGradient"
    /\ status = "ready"
    /\ LET X   == blobs.X
           Y   == blobs.Y
           N   == DistBatch(X)
           D   == IF N > 0 THEN CDiv(Size(X), N) ELSE 0
           msg == DistGradientCheck(X, Y, blobs.dDistance, N)
           sub == [r \in 1..Size(X) |-> X.data[r] - Y.data[r]]
           dX  == StripedScaleKernel(N, D, blobs.dDistance.data, sub)
           dY  == [r \in 1..Size(X) |-> (-1) * dX[r]]
       IN  IF msg # "ok" THEN Failed(msg)
           ELSE /\ blobs' = [blobs EXCEPT !.dX = Tensor("float", X.dims, dX),
                                          !.dY = Tensor("float", Y.dims, dY)]
                /\ launches' = launches \o <<"math::Sub", "StripedScaleKernel", "math::Scale">>
                /\ status' = "done"
                /\ UNCHANGED <<op, aux>>

\* L1DistanceOp<float, HIPContext>::RunOnDevice
RunL1Distance ==
    /\ op.type = "L1Distance"
    /\ status = "ready"
    /\ LET X == blobs.X
           Y == blobs.Y
           N == DistBatch(X)
           D == IF N > 0 THEN CDiv(Size(X), N) ELSE 0
       IN  IF DistDimsCheck(X, Y) # "ok" THEN Failed(DistDimsCheck(X, Y))
           ELSE /\ blobs' = [blobs EXCEPT !.distance =
                       Tensor("float", <<N>>, L1DistanceKernel(N, D, X.data, Y.data))]
                /\ launches' = Append(launches, "L1DistanceKernel")
                /\ status' = "done"
                /\ UNCHANGED <<op, aux>>

\* L1DistanceGradientOp<float, HIPContext>::RunOnDevice
RunL1DistanceGradient ==
    /\ op.type = "L1DistanceGradient"
    /\ status = "ready"
    /\ LET X   == blobs.X
           Y   == blobs.Y
           N   == DistBatch(X)
           D   == IF N > 0 THEN CDiv(Size(X), N) ELSE 0
           msg == DistGradientCheck(X, Y, blobs.dDistance, N)
           out == L1DistanceGradientKernel(N, D, X.data, Y.data, blobs.dDistance.data)
       IN  IF msg # "ok" THEN Failed(msg)
           ELSE /\ blobs' = [blobs EXCEPT !.dX = Tensor("float", X.dims, out.dX),
                                          !.dY = Tensor("float", Y.dims, out.dY)]
                /\ launches' = Append(launches, "L1DistanceGradientKernel")
                /\ status' = "done"
                /\ UNCHANGED <<op, aux>>

\* math::InvSqrt without the root: 1 / x
InvSqrtNoRoot(N, x) == [r \in 1..N |-> SNorm(1, x[r], 1)]

\* math::InvSqrt(N, x, y)
InvSqrt(N, x) == [r \in 1..N |-> SInvSqrt(x[r])]

\* math::Sqrt(N, x, y)
Sqrt(N, x) == [r \in 1..N |-> SSqrt(x[r])]

\* CosineSimilarityOp<float, HIPContext>::RunOnDevice.  aux_ holds x2 (later
\* scale, the same memory) in its first N elements and y2 in the next N.
RunCosineSimilarity ==
    /\ op.type = "CosineSimilarity"
    /\ status = "ready"
    /\ LET X       == blobs.X
           Y       == blobs.Y
           N       == DistBatch(X)
           D       == SizeFromDim(X, 1)
           x2      == DotProductKernel(N, D, X.data, X.data)
           y2      == DotProductKernel(N, D, Y.data, Y.data)
           result0 == DotProductKernel(N, D, X.data, Y.data)
           x2c     == Maximum(N, KEps, x2)
           y2c     == Maximum(N, KEps, y2)
           scale0  == [r \in 1..N |-> x2c[r] * y2c[r]]
           scale   == InvSqrt(N, scale0)
           result  == [r \in 1..N |-> SMul(SInt(result0[r]), scale[r])]
       IN  IF DistDimsCheck(X, Y) # "ok" THEN Failed(DistDimsCheck(X, Y))
           ELSE /\ blobs' = [blobs EXCEPT !.distance = Tensor("float", <<N>>, result)]
                /\ aux' = Tensor("float", <<2 * N>>, scale \o y2c)
                /\ launches' = launches \o
                       <<"DotProductKernel", "DotProductKernel", "DotProductKernel",
                         "math::Maximum", "math::Maximum", "math::Mul",
                         "math::InvSqrt", "math::Mul">>
                /\ status' = "done"
                /\ UNCHANGED op

\* the work of CosineSimilarityGradientOp once its checks have passed
CosineSimilarityGradientCompute ==
    LET X     == blobs.X
        Y     == blobs.Y
        dCos  == blobs.dDistance
        N     == DistBatch(X)
        D     == SizeFromDim(X, 1)
        xn    == Sqrt(N, Maximum(N, KEps, DotProductKernel(N, D, X.data, X.data)))
        yn    == Sqrt(N, Maximum(N, KEps, DotProductKernel(N, D, Y.data, Y.data)))
        xyn   == [r \in 1..N |-> SMul(xn[r], yn[r])]
        xy    == DotProductKernel(N, D, X.data, Y.data)
        scale == [r \in 1..N |-> SDiv(SInt(dCos.data[r]), xyn[r])]
        dX0   == BatchedMul(N, D, Y.data, scale)
        axpyX == Scale2AxpyScale(N, scale, xy, xn)
        dX    == BatchedAxpy(N, D, axpyX, X.data, dX0)
        dY0   == BatchedMul(N, D, X.data, scale)
        axpyY == Scale2AxpyScale(N, scale, xy, yn)
        dY    == BatchedAxpy(N, D, axpyY, Y.data, dY0)
    IN  /\ blobs' = [blobs EXCEPT !.dX = Tensor("float", X.dims, dX),
                                  !.dY = Tensor("float", Y.dims, dY)]
        /\ aux' = Tensor("float", <<6 * N>>,
                         xn \o yn \o [r \in 1..N |-> SInt(xy[r])] \o xyn \o scale \o axpyY)
        /\ launches' = launches \o
               <<"DotProductKernel", "math::Maximum", "math::Sqrt",
                 "DotProductKernel", "math::Maximum", "math::Sqrt",
                 "math::Mul", "DotProductKernel", "math::Div",
                 "BatchedMul", "Scale2AxpyScale", "BatchedAxpy",
                 "BatchedMul", "Scale2AxpyScale", "BatchedAxpy">>
        /\ status' = "done"
        /\ UNCHANGED op

\* a slip: dX and dY resized before X and Y are compared
RunCosineSimilarityGradientResizeFirst ==
    /\ op.type = "CosineSimilarityGradient"
    /\ status = "ready"
    /\ LET msg == DistGradientCheck(blobs.X, blobs.Y, blobs.dDistance, DistBatch(blobs.X))
       IN  IF msg # "ok"
           THEN /\ blobs' = [blobs EXCEPT
                      !.dX = Tensor("float", blobs.X.dims, [r \in 1..Size(blobs.X) |-> 0]),
                      !.dY = Tensor("float", blobs.Y.dims, [r \in 1..Size(blobs.Y) |-> 0])]
                /\ status' = msg
                /\ UNCHANGED <<op, aux, launches>>
           ELSE CosineSimilarityGradientCompute

\* CosineSimilarityGradientOp<float, HIPContext>::RunOnDevice
RunCosineSimilarityGradient ==
    /\ op.type = "CosineSimilarityGradient"
    /\ status = "ready"
    /\ LET msg == DistGradientCheck(blobs.X, blobs.Y, blobs.dDistance, DistBatch(blobs.X))
       IN  IF msg # "ok" THEN Failed(msg)
           ELSE CosineSimilarityGradientCompute

\* DotProductOp<float, HIPContext>::RunOnDevice
RunDotProduct ==
    /\ op.type = "DotProduct"
    /\ status = "ready"
    /\ LET X == blobs.X
           Y == blobs.Y
           N == IF Size(X) > 0 THEN DistBatch(X) ELSE 0
           D == IF Size(X) > 0 THEN CDiv(Size(X), N) ELSE 0
       IN  IF DistDimsCheck(X, Y) # "ok" THEN Failed(DistDimsCheck(X, Y))
           ELSE /\ blobs' = [blobs EXCEPT !.distance =
                       Tensor("float", <<N>>, DotProductKernel(N, D, X.data, Y.data))]
                /\ launches' = Append(launches, "DotProductKernel")
                /\ status' = "done"
                /\ UNCHANGED <<op, aux>>

\* DotProductGradientOp<float, HIPContext>::RunOnDevice
RunDotProductGradient ==
    /\ op.type = "DotProductGradient"
    /\ status = "ready"
    /\ LET X   == blobs.X
           Y   == blobs.Y
           N   == IF Size(X) > 0 THEN DistBatch(X) ELSE 0
           D   == IF Size(X) > 0 THEN CDiv(Size(X), N) ELSE 0
           msg == DistGradientCheck(X, Y, blobs.dDistance, N)
           out == DotProductGradientKernel(N, D, X.data, Y.data, blobs.dDistance.data)
       IN  IF msg # "ok" THEN Failed(msg)
           ELSE /\ blobs' = [blobs EXCEPT !.dX = Tensor("float", X.dims, out.dX),
                                          !.dY = Tensor("float", Y.dims, out.dY)]
                /\ launches' = Append(launches, "DotProductGradientKernel")
                /\ status' = "done"
                /\ UNCHANGED <<op, aux>>

DistForwardOps == {"SquaredL2Distance", "L1Distance", "DotProduct", "CosineSimilarity"}

DistGradientOps ==
    {"SquaredL2DistanceGradient", "L1DistanceGradient", "DotProductGradient",
     "CosineSimilarityGradient"}

\* the caller runs a forward operator a second time with Input(0) and
\* Input(1) exchanged, keeping the first output
ExchangeInputs ==
    /\ op.type \in DistForwardOps
    /\ status = "done"
    /\ blobs.previous = NoTensor
    /\ blobs' = [blobs EXCEPT !.X = blobs.Y, !.Y = blobs.X,
                              !.previous = blobs.distance]
    /\ status' = "ready"
    /\ UNCHANGED <<op, aux, launches>>

\* the caller runs a gradient operator a second time with Input(0) and
\* Input(1) exchanged, keeping the first pair of outputs
ExchangeGradientInputs ==
    /\ op.type \in DistGradientOps
    /\ status = "done"
    /\ blobs.previous = NoTensor
    /\ blobs' = [blobs EXCEPT !.X = blobs.Y, !.Y = blobs.X,
                              !.previous = [dX |-> blobs.dX, dY |-> blobs.dY]]
    /\ status' = "ready"
    /\ UNCHANGED <<op, aux, launches>>

(***************************************************************************)
(* Distance: the operator instances and inputs explored.                   *)
(***************************************************************************)
\* the dims of X: rank 0, 1 and 2, with empty batches and empty rows
DistShapes ==
    {<<>>, <<0>>, <<2>>, <<0, 2>>, <<2, 0>>, <<1, 2>>, <<2, 1>>, <<2, 2>>,
     <<1, 3>>, <<3, 1>>}

DistValues == {-1, 0, 2}

\* upstream gradients: all ones, or a different value in every row
DistUpstreamGradients(n) == {[r \in 1..n |-> 1], [r \in 1..n |-> r + 1]}

DistBlobs(X, Y, dDistance) ==
    [X |-> X, Y |-> Y, dDistance |-> dDistance, distance |-> NoTensor,
     dX |-> NoTensor, dY |-> NoTensor, previous |-> NoTensor]

\* a forward operator and two inputs of one shape
InitDistForward ==
    \E type \in DistForwardOps, d \in DistShapes :
        /\ op = [type |-> type]
        /\ \E x \in Buffers(Prod(d), DistValues), y \in Buffers(Prod(d), DistValues) :
              blobs = DistBlobs(Tensor("float", d, x), Tensor("float", d, y), NoTensor)

\* a gradient operator, two inputs of one shape and an upstream gradient with
\* one element for each row
InitDistGradient ==
    \E type \in DistGradientOps, d \in DistShapes :
        /\ op = [type |-> type]
        /\ \E x \in Buffers(Prod(d), DistValues), y \in Buffers(Prod(d), DistValues),
              g \in DistUpstreamGradients(DistBatch(Tensor("float", d, <<>>))) :
              blobs = DistBlobs(Tensor("float", d, x), Tensor("float", d, y),
                                Tensor("float", <<Len(g)>>, g))

\* an operator and inputs it has to reject: X and Y of different dims, or an
\* upstream gradient of the wrong rank or length
InitDistRejected ==
    \E type \in DistForwardOps \cup DistGradientOps, dx \in DistShapes, dy \in DistShapes :
        /\ op = [type |-> type]
        /\ LET X == Tensor("float", dx, [r \in 1..Prod(dx) |-> 2])
               Y == Tensor("float", dy, [r \in 1..Prod(dy) |-> -1])
               N == DistBatch(X)
           IN  IF type \in DistForwardOps
               THEN dx # dy /\ blobs = DistBlobs(X, Y, NoTensor)
               ELSE \E dg \in {<<N>>, <<N + 1>>, <<N, 1>>} :
                       /\ dx # dy \/ dg # <<N>>
                       /\ blobs = DistBlobs(X, Y,
                                    Tensor("float", dg, [r \in 1..Prod(dg) |-> 1]))

InitDist ==
    /\ InitDistForward \/ InitDistGradient \/ InitDistRejected
    /\ aux = NoTensor
    /\ launches = <<>>
    /\ status = "ready"

NextDist ==
    \/ RunSquaredL2Distance
    \/ RunSquaredL2DistanceGradient
    \/ RunL1Distance
    \/ RunL1DistanceGradient
    \/ RunDotProduct
    \/ RunDotProductGradient
    \/ RunCosineSimilarity
    \/ RunCosineSimilarityGradient
    \/ ExchangeInputs
    \/ ExchangeGradientInputs

SpecDist == InitDist /\ [][NextDist]_vars

(***************************************************************************)
(* Claims about the distance operators (checked under SpecDist).           *)
(***************************************************************************)
\* the batch size and the row length of X
DistN == DistBatch(blobs.X)

DistD == SizeFromDim(blobs.X, 1)

\* X[i, j] and Y[i, j]
DistX(i, j) == At(blobs.X.data, i * DistD + j)

DistY(i, j) == At(blobs.Y.data, i * DistD + j)

\* sum over j of X[i,j] * Y[i,j], of X[i,j]^2, of (X[i,j] - Y[i,j])^2
RowDot(i) == SumSeq([c \in 1..DistD |-> DistX(i, c - 1) * DistY(i, c - 1)])

RowNorm2(i) == SumSeq([c \in 1..DistD |-> DistX(i, c - 1) * DistX(i, c - 1)])

RowSquaredDiff(i) ==
    SumSeq([c \in 1..DistD |->
              (DistX(i, c - 1) - DistY(i, c - 1)) * (DistX(i, c - 1) - DistY(i, c - 1))])

RowsEqual(i) == \A j \in 0..(DistD - 1) : DistX(i, j) = DistY(i, j)

\* the operator in the state has been run on X and Y of one shape
DistRan(type) ==
    op.type = type /\ status # "ready" /\ blobs.X.dims = blobs.Y.dims

\* C5 as stated: CosineSimilarity yields 0 in every row where dot(X, Y) = 0
\* and 1 in every row where X = Y and X has nonzero norm.
C5_CosineZeroOrOneAlways ==
    DistRan("CosineSimilarity") =>
        \A i \in 0..(DistN - 1) :
            /\ status = "done"
            /\ RowDot(i) = 0 => At(blobs.distance.data, i) = SZero
            /\ (RowsEqual(i) /\ RowNorm2(i) > 0) => At(blobs.distance.data, i) = SOne

\* C5, amended: CosineSimilarity yields 0 in every row where dot(X, Y) = 0
\* and 1 in every row where X = Y and the squared norm of X is at least
\* kEps = 1e-12; in a row where X = Y and the squared norm is positive but
\* below kEps it yields squared norm / kEps, which is less than 1.
C5_CosineZeroOrOne ==
    DistRan("CosineSimilarity") =>
        \A i \in 0..(DistN - 1) :
            /\ status = "done"
            /\ RowDot(i) = 0 => At(blobs.distance.data, i) = SZero
            /\ (RowsEqual(i) /\ RowNorm2(i) >= KEps) => At(blobs.distance.data, i) = SOne
            /\ (RowsEqual(i) /\ RowNorm2(i) > 0 /\ RowNorm2(i) < KEps) =>
                   /\ At(blobs.distance.data, i) = SNorm(RowNorm2(i), KEps, 1)
                   /\ At(blobs.distance.data, i) # SOne

\* a finished run on two rows: the first with X = Y = (2, -1), whose squared
\* norm 5 exceeds kEps, the second with X = (2, 0) orthogonal to Y = (0, 2)
C5_Witness ==
    /\ DistRan("CosineSimilarity") /\ status = "done"
    /\ blobs.X.dims = <<2, 2>>
    /\ blobs.X.data = <<2, -1, 2, 0>>
    /\ blobs.Y.data = <<2, -1, 0, 2>>
    /\ blobs.distance.data = <<SOne, SZero>>

\* C6: SquaredL2Distance returns for each batch row i half the sum over j of
\* (X[i,j] - Y[i,j])^2, so a row where X equals Y gets 0.
C6_SquaredL2Half ==
    DistRan("SquaredL2Distance") =>
        \A i \in 0..(DistN - 1) :
            /\ status = "done"
            /\ At(blobs.distance.data, i).rt = 1
            /\ 2 * At(blobs.distance.data, i).num
                   = RowSquaredDiff(i) * At(blobs.distance.data, i).den
            /\ RowsEqual(i) => At(blobs.distance.data, i) = SZero

\* a finished run on two rows: squared differences 9 + 0 in the first, whose
\* half is 9/2, and X = Y nonzero in the second
C6_Witness ==
    /\ DistRan("SquaredL2Distance") /\ status = "done"
    /\ blobs.X.dims = <<2, 2>>
    /\ blobs.X.data = <<2, 0, 2, -1>>
    /\ blobs.Y.data = <<-1, 0, 2, -1>>
    /\ blobs.distance.data = <<[num |-> 9, den |-> 2, rt |-> 1], SZero>>

\* C7: L1Distance and DotProduct are symmetric in their inputs: run again
\* with X and Y exchanged, each returns in every row what it returned first.
C7_Symmetric ==
    (/\ op.type \in {"L1Distance", "DotProduct"}
     /\ blobs.previous # NoTensor /\ status # "ready")
        => status = "done" /\ blobs.distance = blobs.previous

\* a finished second run of L1Distance, on rows that differ, with the result
\* of the first run: |2 - (-1)| + |0 - 2| = 5 and |(-1) - 2| + 0 = 3
C7_Witness ==
    /\ op.type = "L1Distance" /\ status = "done"
    /\ blobs.X.dims = <<2, 2>>
    /\ blobs.X.data = <<2, 0, -1, 2>>
    /\ blobs.Y.data = <<-1, 2, 2, 2>>
    /\ blobs.previous.data = <<5, 3>>
    /\ blobs.distance.data = <<5, 3>>

\* C9: each of the eight distance operators, run on X and Y that differ in
\* rank or in an extent, ends in an enforce failure and has by then resized
\* no output, not resized the scratch tensor and launched no kernel.
C9_DistanceRejectsMismatch ==
    (/\ op.type \in DistForwardOps \cup DistGradientOps
     /\ blobs.X.dims # blobs.Y.dims /\ status # "ready")
        => /\ IsError(status)
           /\ blobs.distance = NoTensor
           /\ blobs.dX = NoTensor
           /\ blobs.dY = NoTensor
           /\ aux = NoTensor
           /\ launches = <<>>

\* CosineSimilarityGradient has failed on X and Y of one rank that differ in
\* their second extent
C9_Witness ==
    /\ op.type = "CosineSimilarityGradient"
    /\ blobs.X.dims = <<2, 2>> /\ blobs.Y.dims = <<2, 1>>
    /\ status = "X.dim32(i) == Y.dim32(i)"
    /\ blobs.dX = NoTensor /\ aux = NoTensor /\ launches = <<>>

\* C10: each forward distance operator, run on inputs whose batch dimension
\* is 0, completes with a length-0 result, having divided by nothing that
\* is zero and written no element.
C10_EmptyBatchCompletes ==
    (/\ op.type \in DistForwardOps /\ status # "ready"
     /\ blobs.X.dims = blobs.Y.dims
     /\ Ndim(blobs.X) > 0 /\ Dim32(blobs.X, 0) = 0)
        => /\ status = "done"
           /\ blobs.distance = Tensor("float", <<0>>, <<>>)

(***************************************************************************)
(* Further claims about max pooling (checked under SpecPool).              *)
(***************************************************************************)
\* mask's element at the flat position of output cell (n, c, ph, pw) describes
\* Y's element at that position: it is -1, or the flat index of a window cell
\* where X is that element of Y
MaskDescribesY ==
    \A s \in PoolSlices, p \in PoolOutCells :
        \/ At(blobs.mask.data, PoolOutIndex(s[1], s[2], p[1], p[2])) = -1
        \/ ArgmaxConsistentAt(s[1], s[2], p[1], p[2])

\* C12 as claimed: after the forward pass mask is an integer tensor with the
\* shape of Y (batch x channels x pooled_height x pooled_width).
C12_MaskShapedLikeY ==
    PoolForwardDone =>
        /\ blobs.mask.type = "int"
        /\ Ndim(blobs.Y) = 4
        /\ blobs.mask.dims = blobs.Y.dims

\* C12 as amended: after the forward pass mask is an integer tensor of one
\* dimension holding as many elements as Y (batch x channels x pooled_height
\* x pooled_width of them), and its element at the row-major position of an
\* output cell describes Y's element at that cell.
C12_MaskFlat ==
    PoolForwardDone =>
        /\ blobs.mask.type = "int"
        /\ Ndim(blobs.Y) = 4
        /\ blobs.Y.dims[1] = Dim32(blobs.X, 0)
        /\ blobs.Y.dims[2] = Dim32(blobs.X, 1)
        /\ blobs.mask.dims = <<Size(blobs.Y)>>
        /\ Len(blobs.mask.data) = Size(blobs.Y)
        /\ Len(blobs.Y.data) = Size(blobs.Y)
        /\ MaskDescribesY

\* C12's case: a forward pass whose Y has two rows or two columns in each of
\* two slices, with a mask element that names a cell
C12_Witness ==
    /\ PoolForwardDone
    /\ Dim32(blobs.Y, 0) * Dim32(blobs.Y, 1) >= 2
    /\ Dim32(blobs.Y, 2) * Dim32(blobs.Y, 3) >= 2
    /\ blobs.mask.dims = <<Size(blobs.Y)>>
    /\ \E i \in 1..Size(blobs.Y) : blobs.mask.data[i] >= 0

\* the cells of the window of output cell (ph, pw) of slice (n, c) that hold
\* the window's maximum
WindowMaxCells(n, c, ph, pw) ==
    {hw \in WindowCells(ph, pw) :
        \A o \in WindowCells(ph, pw) :
            PoolX(n, c, o[1], o[2]) <= PoolX(n, c, hw[1], hw[2])}

\* the first cell of a non-empty set of cells in row-major order: smallest h,
\* then smallest w
FirstRowMajor(S) ==
    CHOOSE hw \in S :
        \A o \in S : hw[1] < o[1] \/ (hw[1] = o[1] /\ hw[2] <= o[2])

\* several cells of the window hold its maximum
PoolTied(n, c, ph, pw) == Cardinality(WindowMaxCells(n, c, ph, pw)) >= 2

\* mask[n, c, ph, pw] is the flat index of the first maximum of the window
MaskIsFirstMax(n, c, ph, pw) ==
    LET first == FirstRowMajor(WindowMaxCells(n, c, ph, pw))
    IN At(blobs.mask.data, PoolOutIndex(n, c, ph, pw))
          = first[1] * Dim32(blobs.X, 3) + first[2]

\* the backward pass gives every output cell's whole upstream gradient to the
\* cell its mask names and to no other: dX at a cell is the sum of dY over the
\* output cells whose mask names it
RoutedByMask ==
    \A s \in PoolSlices, hw \in PoolInCells :
        LET from == ArgmaxOf(s[1], s[2], hw[1], hw[2])
        IN PoolDX(s[1], s[2], hw[1], hw[2])
              = SumOver(from, [p \in from |-> PoolDY(s[1], s[2], p[1], p[2])])

\* C13 as claimed: whenever several cells of a window hold the maximum, mask
\* records the first of them in row-major order, and the backward pass adds
\* the output cell's whole upstream gradient to the recorded cell and nothing
\* to the other cells.
C13_FirstMaxAlways ==
    /\ PoolForwardDone =>
          \A s \in PoolSlices, p \in PoolOutCells :
              PoolTied(s[1], s[2], p[1], p[2])
                  => MaskIsFirstMax(s[1], s[2], p[1], p[2])
    /\ PoolBackwardDone => RoutedByMask

\* C13 as amended: whenever several cells of a window hold the maximum and the
\* maximum is above -FLT_MAX, mask records the first of them in row-major
\* order; when the maximum is -FLT_MAX or below, mask is -1 and no cell is
\* recorded; the backward pass adds the output cell's whole upstream gradient
\* to the recorded cell, if any, and nothing to the other cells.
C13_FirstMax ==
    /\ PoolForwardDone =>
          \A s \in PoolSlices, p \in PoolOutCells :
              PoolTied(s[1], s[2], p[1], p[2]) =>
                  IF \E hw \in WindowCells(p[1], p[2]) :
                         PoolX(s[1], s[2], hw[1], hw[2]) > -FLT_MAX
                  THEN MaskIsFirstMax(s[1], s[2], p[1], p[2])
                  ELSE At(blobs.mask.data,
                          PoolOutIndex(s[1], s[2], p[1], p[2])) = -1
    /\ PoolBackwardDone => RoutedByMask

\* C13's case: a backward pass over a window with two cells tied at a maximum
\* above -FLT_MAX: the first received the upstream gradient, the other nothing
C13_Witness ==
    /\ PoolBackwardDone
    /\ \E s \in PoolSlices, p \in PoolOutCells :
          /\ PoolTied(s[1], s[2], p[1], p[2])
          /\ MaskIsFirstMax(s[1], s[2], p[1], p[2])
          /\ LET tied == WindowMaxCells(s[1], s[2], p[1], p[2])
                 first == FirstRowMajor(tied)
             IN /\ PoolX(s[1], s[2], first[1], first[2]) > -FLT_MAX
                /\ PoolDX(s[1], s[2], first[1], first[2])
                      = PoolDY(s[1], s[2], p[1], p[2])
                /\ PoolDY(s[1], s[2], p[1], p[2]) > 0
                /\ \E o \in tied \ {first} : PoolDX(s[1], s[2], o[1], o[2]) = 0

\* the output cells whose window before clamping, [ph * stride - pad,
\* ph * stride - pad + kernel) in each direction, contains input cell (h, w)
OutputsCovering(h, w) ==
    {p \in PoolOutCells : <<h, w>> \in WindowCells(p[1], p[2])}

\* the output cells MaxPoolBackward scans for input cell (h, w)
OutputsScanned(h, w) ==
    LET rng == PoolBackRange(PoolKernelArgs(op, blobs.X, Dim32(blobs.Y, 2),
                                            Dim32(blobs.Y, 3)), h, w)
    IN (rng.phstart..(rng.phend - 1)) \X (rng.pwstart..(rng.pwend - 1))

\* C14: for every input cell (h, w), the range [phstart, phend) x
\* [pwstart, pwend) that MaxPoolBackward scans is exactly the set of output
\* cells within the pooled dimensions whose forward window contains (h, w).
C14_BackRangeExact ==
    PoolForwardDone =>
        \A hw \in PoolInCells :
            OutputsScanned(hw[1], hw[2]) = OutputsCovering(hw[1], hw[2])

\* C14's case: a backward pass in which one input cell lies in the windows of
\* two output cells and the range scanned for another starts above output
\* cell (0, 0)
C14_Witness ==
    /\ PoolBackwardDone
    /\ \E hw \in PoolInCells : Cardinality(OutputsScanned(hw[1], hw[2])) >= 2
    /\ \E hw \in PoolInCells :
          /\ OutputsScanned(hw[1], hw[2]) # {}
          /\ \A p \in OutputsScanned(hw[1], hw[2]) : p[1] + p[2] >= 1

(***************************************************************************)
(* max_pool_with_index_hip.cc, thread by thread.                           *)
(*                                                                         *)
(* The same two operators with their kernels in flight: a launch resizes   *)
(* the outputs, whose buffers keep whatever they held, and every thread of *)
(* the grid then runs its HIP_1D_KERNEL_LOOP iterations in one step, the   *)
(* threads in any order.  aux = [pending, writes]: the threads that have   *)
(* not run yet, and for every element of the output buffer the number of   *)
(* stores it has received from the kernel in flight.                       *)
(***************************************************************************)
\* CAFFE_GET_BLOCKS(N): the blocks of a launch over N indices
CAFFE_GET_BLOCKS(N) == (N + CAFFE_HIP_NUM_THREADS - 1) \div CAFFE_HIP_NUM_THREADS

\* HIP_1D_KERNEL_LOOP(i, n) in thread t of a grid of CAFFE_GET_BLOCKS(n)
\* blocks: the indices t, t + threads of the grid, ... below n
KernelLoop(t, n) ==
    {i \in 0..(n - 1) :
        /\ i >= t
        /\ CMod(i - t, CAFFE_GET_BLOCKS(n) * CAFFE_HIP_NUM_THREADS) = 0}

\* the threads of the grid that have an index to visit
GridThreads(n) ==
    {t \in 0..(CAFFE_GET_BLOCKS(n) * CAFFE_HIP_NUM_THREADS - 1) :
        KernelLoop(t, n) # {}}

\* the smallest index of a non-empty set of indices
FirstIndex(S) == CHOOSE i \in S : \A j \in S : i <= j

\* what the output buffers hold after Resize and before the kernel has stored
\* anything: content left from earlier use
StaleValues == {0, 7}

\* a slip: the stores go to the cell's position within its slice
PoolForwardStoreInSlice(k, index) ==
    CMod(index, k.pooled_height * k.pooled_width)

\* the element of top_data and of mask the iteration for index stores to:
\* top_data[index], mask[index]
PoolForwardStore(k, index) == index

\* the element of bottom_diff the iteration for index stores to:
\* bottom_diff[index]
PoolBackwardStore(k, index) == index

\* the iterations of one thread of MaxPoolForward over its indices, in
\* ascending order; bufs = [top_data, mask, writes]
RECURSIVE MaxPoolForwardLoop(_, _, _, _, _)
MaxPoolForwardLoop(type, k, bottom_data, indices, bufs) ==
    IF indices = {} THEN bufs
    ELSE LET index == FirstIndex(indices)
             r == MaxPoolForwardAt(type, k, bottom_data, index)
             at == PoolForwardStore(k, index) + 1
         IN MaxPoolForwardLoop(type, k, bottom_data, indices \ {index},
               [top_data |-> [bufs.top_data EXCEPT ![at] = r.top],
                mask     |-> [bufs.mask EXCEPT ![at] = r.mask],
                writes   |-> [bufs.writes EXCEPT ![at] = @ + 1]])

\* the iterations of one thread of MaxPoolBackward over its indices, in
\* ascending order; bufs = [bottom_diff, writes]
RECURSIVE MaxPoolBackwardLoop(_, _, _, _, _, _)
MaxPoolBackwardLoop(type, k, top_diff, mask, indices, bufs) ==
    IF indices = {} THEN bufs
    ELSE LET index == FirstIndex(indices)
             at == PoolBackwardStore(k, index) + 1
         IN MaxPoolBackwardLoop(type, k, top_diff, mask, indices \ {index},
               [bottom_diff |-> [bufs.bottom_diff EXCEPT ![at] =
                                    MaxPoolBackwardAt(type, k, top_diff, mask,
                                                      index)],
                writes      |-> [bufs.writes EXCEPT ![at] = @ + 1]])

\* MaxPoolWithIndexOp::DoRunWithType<T> up to the launch: Y and mask resized,
\* the kernel's threads yet to run
LaunchMaxPoolForward(type) ==
    LET X == blobs.X
        Ydims == SetOutputSize(op, X, Dim32(X, 1))
        output_size == Prod(Ydims)
    IN /\ \E stale \in StaleValues :
            blobs' = [blobs EXCEPT
                        !.Y = Tensor(type, Ydims, [i \in 1..output_size |-> stale]),
                        !.mask = Tensor("int", <<output_size>>,
                                        [i \in 1..output_size |-> stale])]
       /\ op' = KernelAfterSetOutputSize(op, X)
       /\ aux' = [pending |-> GridThreads(output_size),
                  writes |-> [i \in 1..output_size |-> 0]]
       /\ launches' = Append(launches, "MaxPoolForward")
       /\ status' = "running"

\* MaxPoolWithIndexOp::RunOnDevice up to the launch
StartMaxPoolWithIndex ==
    /\ op.type = "MaxPoolWithIndex"
    /\ status = "ready"
    /\ IF Ndim(blobs.X) # 4 THEN Failed("Operator only supports 4D tensors")
       ELSE IF blobs.X.type = "float" THEN LaunchMaxPoolForward("float")
       ELSE IF blobs.X.type = "float16" THEN LaunchMaxPoolForward("float16")
       ELSE Failed("Unsupported input type")

\* one thread of MaxPoolForward runs; the kernel is done with its last thread
MaxPoolForwardThread ==
    /\ status = "running"
    /\ launches[Len(launches)] = "MaxPoolForward"
    /\ \E t \in aux.pending :
          LET k == PoolKernelArgs(op, blobs.X, Dim32(blobs.Y, 2),
                                  Dim32(blobs.Y, 3))
              bufs == MaxPoolForwardLoop(blobs.X.type, k, blobs.X.data,
                         KernelLoop(t, Size(blobs.Y)),
                         [top_data |-> blobs.Y.data, mask |-> blobs.mask.data,
                          writes |-> aux.writes])
          IN /\ blobs' = [blobs EXCEPT !.Y.data = bufs.top_data,
                                       !.mask.data = bufs.mask]
             /\ aux' = [pending |-> aux.pending \ {t}, writes |-> bufs.writes]
             /\ status' = IF aux.pending = {t} THEN "done" ELSE "running"
    /\ UNCHANGED <<op, launches>>

\* MaxPoolWithIndexGradientOp::DoRunWithType<T> up to the launch: dX resized,
\* ComputePads run on X's height and width, the kernel's threads yet to run
\* with the kernel and pads the operator holds from then on
LaunchMaxPoolBackward(type) ==
    LET X == blobs.X
    IN IF Ndim(X) # 4 THEN Failed("Operator only supports 4D tensors")
       ELSE /\ \E stale \in StaleValues :
                 blobs' = [blobs EXCEPT !.dX =
                              Tensor(type, X.dims, [i \in 1..Size(X) |-> stale])]
            /\ op' = ComputePads(op, <<Dim32(X, 2), Dim32(X, 3)>>)
            /\ aux' = [pending |-> GridThreads(Size(X)),
                       writes |-> [i \in 1..Size(X) |-> 0]]
            /\ launches' = Append(launches, "MaxPoolBackward")
            /\ status' = "running"

\* MaxPoolWithIndexGradientOp::RunOnDevice up to the launch
StartMaxPoolWithIndexGradient ==
    /\ op.type = "MaxPoolWithIndexGradient"
    /\ status = "ready"
    /\ IF blobs.X.type = "float" THEN LaunchMaxPoolBackward("float")
       ELSE IF blobs.X.type = "float16" THEN LaunchMaxPoolBackward("float16")
       ELSE Failed("Unsupported input type")

\* one thread of MaxPoolBackward runs; the kernel is done with its last thread
MaxPoolBackwardThread ==
    /\ status = "running"
    /\ launches[Len(launches)] = "MaxPoolBackward"
    /\ \E t \in aux.pending :
          LET k == PoolKernelArgs(op, blobs.X, Dim32(blobs.dY, 2),
                                  Dim32(blobs.dY, 3))
              bufs == MaxPoolBackwardLoop(blobs.X.type, k, blobs.dY.data,
                         blobs.mask.data, KernelLoop(t, Size(blobs.X)),
                         [bottom_diff |-> blobs.dX.data, writes |-> aux.writes])
          IN /\ blobs' = [blobs EXCEPT !.dX.data = bufs.bottom_diff]
             /\ aux' = [pending |-> aux.pending \ {t}, writes |-> bufs.writes]
             /\ status' = IF aux.pending = {t} THEN "done" ELSE "running"
    /\ UNCHANGED <<op, launches>>

\* kernel, stride and pad arguments, the same for both directions
PoolThreadArgs == {o \in PoolArgs : o.kernel_h = o.kernel_w
                                    /\ o.stride_h = o.stride_w
                                    /\ o.pad_t = o.pad_l}

\* element values that tie or differ
PoolThreadValues == {0, 1}

\* a forward operator on a 4-D float or float16 input with at most
\* MaxPoolElems output cells
InitPoolThreads ==
    /\ \E o \in PoolThreadArgs, d \in PoolShapes, t \in {"float", "float16"} :
         \E data \in Buffers(Prod(d), PoolThreadValues) :
           /\ FitsKernel(o, d)
           /\ Prod(SetOutputSize(o, Tensor(t, d, data), d[2])) <= MaxPoolElems
           /\ op = o
           /\ blobs = PoolBlobs(Tensor(t, d, data))
    /\ aux = [pending |-> {}, writes |-> <<>>]
    /\ launches = <<>>
    /\ status = "ready"

NextPoolThreads ==
    \/ StartMaxPoolWithIndex
    \/ MaxPoolForwardThread
    \/ GetMaxPoolWithIndexGradient
    \/ StartMaxPoolWithIndexGradient
    \/ MaxPoolBackwardThread

SpecPoolThreads == InitPoolThreads /\ [][NextPoolThreads]_vars

(***************************************************************************)
(* Claims about the scheduling of the pooling kernels (checked under       *)
(* SpecPoolThreads).                                                       *)
(***************************************************************************)
\* C11: for a fixed input and configuration, whatever the order in which the
\* kernel's threads run and whatever the output buffers held before, a
\* finished MaxPoolWithIndex leaves in Y and mask the values that the input and
\* the configuration determine, and a finished MaxPoolWithIndexGradient leaves
\* in dX the values that dY, mask and the configuration determine; no element
\* of an output is stored to by more than one loop iteration, and at the end
\* each has been stored to exactly once.
C11_Deterministic ==
    /\ status \in {"running", "done"} => \A i \in DOMAIN aux.writes : aux.writes[i] <= 1
    /\ status = "done" => \A i \in DOMAIN aux.writes : aux.writes[i] = 1
    /\ (PoolForwardDone /\ (status # "running" \/ op.type # "MaxPoolWithIndex")) =>
          LET out == MaxPoolForward(blobs.X.type, Size(blobs.Y),
                        PoolKernelArgs(op, blobs.X, Dim32(blobs.Y, 2),
                                       Dim32(blobs.Y, 3)), blobs.X.data)
          IN /\ blobs.Y.data = out.top_data
             /\ blobs.mask.data = out.mask
    /\ (PoolBackwardDone /\ status = "done") =>
          blobs.dX.data = MaxPoolBackward(blobs.X.type, Size(blobs.X),
                             PoolKernelArgs(op, blobs.X, Dim32(blobs.dY, 2),
                                            Dim32(blobs.dY, 3)),
                             blobs.dY.data, blobs.mask.data)

\* C11's case: forward and backward kernels of three threads or more have both
\* finished, every element stored to once and none left with the stale 7,
\* with a gradient that reached dX
C11_Witness ==
    /\ status = "done"
    /\ launches = <<"MaxPoolForward", "MaxPoolBackward">>
    /\ Size(blobs.Y) >= 3
    /\ Size(blobs.X) >= 3
    /\ \A i \in DOMAIN aux.writes : aux.writes[i] = 1
    /\ \E i \in 1..Size(blobs.X) : blobs.dX.data[i] > 0
    /\ \A i \in 1..Size(blobs.X) : blobs.dX.data[i] # 7

(***************************************************************************)
(* pad_op_hip.cc: PadImageOp (the forward pass).                           *)
(*                                                                         *)
(* op = [type, mode, order, pad_t, pad_l, pad_b, pad_r, value];            *)
(* blobs = [X, Y].  aux is the set of reads of bottom_data the kernel has  *)
(* made, each a record [h, w, at]: the input coordinate and the element    *)
(* it addressed.  A read outside bottom_data is undefined behaviour: it    *)
(* returns some value and the run goes on, or the device reports a memory  *)
(* fault.                                                                  *)
(***************************************************************************)
\* the (nc, ph, pw) of a padded index, NCHW kernels
PadOutCoordNCHW(k, index) ==
    [nc |-> CDiv(CDiv(index, k.padded_width), k.padded_height),
     ph |-> CMod(CDiv(index, k.padded_width), k.padded_height),
     pw |-> CMod(index, k.padded_width)]

\* a slip: pw taken modulo padded_height and ph found by dividing by it
PadOutCoordNHWCSwapped(k, index) ==
    [c  |-> CMod(index, k.channels),
     pw |-> CMod(CDiv(index, k.channels), k.padded_height),
     ph |-> CMod(CDiv(CDiv(index, k.channels), k.padded_height), k.padded_width),
     n  |-> CDiv(CDiv(CDiv(index, k.channels), k.padded_width), k.padded_height)]

\* the (n, c, ph, pw) of a padded index, NHWC kernels
PadOutCoordNHWC(k, index) ==
    [c  |-> CMod(index, k.channels),
     pw |-> CMod(CDiv(index, k.channels), k.padded_width),
     ph |-> CMod(CDiv(CDiv(index, k.channels), k.padded_width), k.padded_height),
     n  |-> CDiv(CDiv(CDiv(index, k.channels), k.padded_width), k.padded_height)]

\* the input coordinate of a padded cell in the three modes
PadSource(mode, k, ph, pw) ==
    IF mode = "constant" THEN PadSourceConst(k, ph, pw)
    ELSE IF mode = "reflect" THEN PadSourceReflect(k, ph, pw)
    ELSE PadSourceEdge(k, ph, pw)

\* the constant kernels' test (h < 0 || w < 0 || h >= height || w >= width)
PadOutsideImage(k, s) == s.h < 0 \/ s.w < 0 \/ s.h >= k.height \/ s.w >= k.width

\* bottom_data[(nc * height + h) * width + w] of the NCHW kernels: the read
\* the iteration for index makes, or no read when the fill value is stored
PadImageReadNCHW(mode, k, index) ==
    LET o == PadOutCoordNCHW(k, index)
        s == PadSource(mode, k, o.ph, o.pw)
    IN IF mode = "constant" /\ PadOutsideImage(k, s) THEN {}
       ELSE {[h |-> s.h, w |-> s.w,
              at |-> (o.nc * k.height + s.h) * k.width + s.w]}

\* bottom_data[((n * height + h) * width + w) * channels + c] of the NHWC
\* kernels
PadImageReadNHWC(mode, k, index) ==
    LET o == PadOutCoordNHWC(k, index)
        s == PadSource(mode, k, o.ph, o.pw)
    IN IF mode = "constant" /\ PadOutsideImage(k, s) THEN {}
       ELSE {[h |-> s.h, w |-> s.w,
              at |-> ((o.n * k.height + s.h) * k.width + s.w) * k.channels + o.c]}

\* what the iteration stores in top_data[index]: the fill value, or what the
\* read returns; garbage gives, for each address outside bottom_data, what
\* the memory there holds
PadImageStore(reads, bottom_data, value, garbage) ==
    IF reads = {} THEN value
    ELSE LET r == CHOOSE x \in reads : TRUE
         IN IF r.at >= 0 /\ r.at < Len(bottom_data) THEN At(bottom_data, r.at)
            ELSE garbage[r.at]

PadImageConstNCHW(nthreads, bottom_data, k, value, garbage) ==
    [j \in 1..nthreads |->
        PadImageStore(PadImageReadNCHW("constant", k, j - 1), bottom_data,
                      value, garbage)]

PadImageReflectNCHW(nthreads, bottom_data, k, garbage) ==
    [j \in 1..nthreads |->
        PadImageStore(PadImageReadNCHW("reflect", k, j - 1), bottom_data,
                      0, garbage)]

PadImageEdgeNCHW(nthreads, bottom_data, k, garbage) ==
    [j \in 1..nthreads |->
        PadImageStore(PadImageReadNCHW("edge", k, j - 1), bottom_data,
                      0, garbage)]

PadImageConstNHWC(nthreads, bottom_data, k, value, garbage) ==
    [j \in 1..nthreads |->
        PadImageStore(PadImageReadNHWC("constant", k, j - 1), bottom_data,
                      value, garbage)]

PadImageReflectNHWC(nthreads, bottom_data, k, garbage) ==
    [j \in 1..nthreads |->
        PadImageStore(PadImageReadNHWC("reflect", k, j - 1), bottom_data,
                      0, garbage)]

PadImageEdgeNHWC(nthreads, bottom_data, k, garbage) ==
    [j \in 1..nthreads |->
        PadImageStore(PadImageReadNHWC("edge", k, j - 1), bottom_data,
                      0, garbage)]

\* all the reads of a launch over nthreads indices
PadImageReads(order, mode, k, nthreads) ==
    UNION {IF order = "NCHW" THEN PadImageReadNCHW(mode, k, index)
                             ELSE PadImageReadNHWC(mode, k, index) :
           index \in 0..(nthreads - 1)}

\* ConvPoolOpBase::SetOutputSize(X, Y, channels) for PadImageOp, whose
\* constructor sets the kernel to 1 and leaves the stride at 1: Y's dims
PadImageOutputDims(o, X) ==
    [i \in 1..4 |->
        IF i - 1 = PadHeightAxis(o.order)
        THEN PooledSize(X.dims[i], o.pad_t, o.pad_b, 1, 1)
        ELSE IF i - 1 = PadWidthAxis(o.order)
        THEN PooledSize(X.dims[i], o.pad_l, o.pad_r, 1, 1)
        ELSE X.dims[i]]

\* what a read outside bottom_data may return
PadGarbage == {-1, -2}

\* the addresses outside a bottom_data of n elements that a launch reads
PadImageOutside(order, mode, k, nthreads, n) ==
    {r.at : r \in {x \in PadImageReads(order, mode, k, nthreads) :
                       x.at < 0 \/ x.at >= n}}

\* what the memory at a set of addresses may hold, address by address
PadGarbageAt(addresses) == [addresses -> PadGarbage]

\* the addresses outside X's data that the run of operator o on X reads
PadImageRunOutside(o, X) ==
    LET Ydims == PadImageOutputDims(o, X)
        k == PadKernelArgs(o, X.dims, Tensor("float", Ydims, <<>>))
    IN PadImageOutside(o.order, o.mode, k, Prod(Ydims), Size(X))

\* PadImageOp::RunOnDeviceWithOrderNCHW; garbage is what the memory outside
\* X's data holds at the addresses the kernel reads
RunPadImageNCHW(garbage) ==
    LET X == blobs.X
        Ydims == PadImageOutputDims(op, X)
        output_size == Prod(Ydims)
        k == PadKernelArgs(op, X.dims, Tensor("float", Ydims, <<>>))
        Ydata == IF op.mode = "constant"
                 THEN PadImageConstNCHW(output_size, X.data, k, op.value, garbage)
                 ELSE IF op.mode = "reflect"
                 THEN PadImageReflectNCHW(output_size, X.data, k, garbage)
                 ELSE PadImageEdgeNCHW(output_size, X.data, k, garbage)
    IN /\ blobs' = [blobs EXCEPT !.Y = Tensor("float", Ydims, Ydata)]
       /\ aux' = PadImageReads("NCHW", op.mode, k, output_size)

\* PadImageOp::RunOnDeviceWithOrderNHWC
RunPadImageNHWC(garbage) ==
    LET X == blobs.X
        Ydims == PadImageOutputDims(op, X)
        output_size == Prod(Ydims)
        k == PadKernelArgs(op, X.dims, Tensor("float", Ydims, <<>>))
        Ydata == IF op.mode = "constant"
                 THEN PadImageConstNHWC(output_size, X.data, k, op.value, garbage)
                 ELSE IF op.mode = "reflect"
                 THEN PadImageReflectNHWC(output_size, X.data, k, garbage)
                 ELSE PadImageEdgeNHWC(output_size, X.data, k, garbage)
    IN /\ blobs' = [blobs EXCEPT !.Y = Tensor("float", Ydims, Ydata)]
       /\ aux' = PadImageReads("NHWC", op.mode, k, output_size)

\* PadImageOp::RunOnDevice: the layout's run
RunPadImage ==
    /\ op.type = "PadImage"
    /\ status = "ready"
    /\ \E garbage \in PadGarbageAt(PadImageRunOutside(op, blobs.X)) :
          IF op.order = "NCHW" THEN RunPadImageNCHW(garbage)
                               ELSE RunPadImageNHWC(garbage)
    /\ launches' = Append(launches, <<"PadImage", op.mode, op.order>>)
    /\ IF \E r \in aux' : r.at < 0 \/ r.at >= Size(blobs.X)
       THEN status' \in {"done", "memory fault"}
       ELSE status' = "done"
    /\ UNCHANGED op

\* the fill value of constant mode
PadFillValues == {0, 11}

\* the image: a different value in every cell
PadImageData(n) == [i \in 1..n |-> 10 + i]

\* the dims of the image in the operator's layout
PadImageDims(order, d) ==
    IF order = "NCHW" THEN d ELSE <<d[1], d[3], d[4], d[2]>>

\* the runs explored read at most MaxPadOutside addresses outside X's data
InitPadImage ==
    /\ \E mode \in PadModes, order \in PadOrders,
          pad_t \in PadHeadPads, pad_l \in PadHeadPads,
          pad_b \in PadTailPads, pad_r \in PadTailPads, d \in PadShapes,
          value \in PadFillValues :
         /\ op = [type |-> "PadImage", mode |-> mode, order |-> order,
                  pad_t |-> pad_t, pad_l |-> pad_l, pad_b |-> pad_b,
                  pad_r |-> pad_r, value |-> value]
         /\ blobs = [X |-> Tensor("float", PadImageDims(order, d),
                                  PadImageData(Prod(d))),
                     Y |-> NoTensor]
         /\ Cardinality(PadImageRunOutside(op, blobs.X)) <= MaxPadOutside
    /\ aux = {}
    /\ launches = <<>>
    /\ status = "ready"

NextPadImage == RunPadImage

SpecPadImage == InitPadImage /\ [][NextPadImage]_vars

(***************************************************************************)
(* Claims about the forward padding (checked under SpecPadImage).          *)
(***************************************************************************)
\* the image's and the padded image's height and width
PadImageHeight == Dim32(blobs.X, PadHeightAxis(op.order))

PadImageWidth == Dim32(blobs.X, PadWidthAxis(op.order))

PadImageChannels == Dim32(blobs.X, PadChannelAxis(op.order))

\* the flat position of cell (n, c, h, w) of a tensor of the given height and
\* width in the operator's layout
PadFlat(n, c, h, w, height, width) ==
    IF op.order = "NCHW"
    THEN ((n * PadImageChannels + c) * height + h) * width + w
    ELSE ((n * height + h) * width + w) * PadImageChannels + c

\* X[n, c, h, w] and Y[n, c, ph, pw]
PadX(n, c, h, w) ==
    At(blobs.X.data, PadFlat(n, c, h, w, PadImageHeight, PadImageWidth))

PadY(n, c, ph, pw) ==
    At(blobs.Y.data,
       PadFlat(n, c, ph, pw, Dim32(blobs.Y, PadHeightAxis(op.order)),
               Dim32(blobs.Y, PadWidthAxis(op.order))))

\* the slices (n, c) and the cells (ph, pw) of the padded image
PadImageSlices == (0..(Dim32(blobs.X, 0) - 1)) \X (0..(PadImageChannels - 1))

PaddedCells ==
    (0..(PadImageHeight + op.pad_t + op.pad_b - 1))
        \X (0..(PadImageWidth + op.pad_l + op.pad_r - 1))

\* the forward pass in the given mode has run
PadImageRan(mode) == op.type = "PadImage" /\ op.mode = mode /\ status # "ready"

\* every read of the input was of a cell of the image
PadReadsInRange ==
    \A r \in aux : /\ 0 <= r.h /\ r.h < PadImageHeight
                   /\ 0 <= r.w /\ r.w < PadImageWidth
                   /\ 0 <= r.at /\ r.at < Size(blobs.X)

\* Y has the dims of X enlarged by the pads
PaddedShape ==
    /\ Size(blobs.Y) = Cardinality(PadImageSlices) * Cardinality(PaddedCells)
    /\ Len(blobs.Y.data) = Size(blobs.Y)
    /\ Dim32(blobs.Y, PadHeightAxis(op.order)) = PadImageHeight + op.pad_t + op.pad_b
    /\ Dim32(blobs.Y, PadWidthAxis(op.order)) = PadImageWidth + op.pad_l + op.pad_r

\* C15: in constant mode, in both layouts, the output at padded position
\* (ph, pw) is the input at (ph - pad_t, pw - pad_l) of the same batch and
\* channel when that coordinate lies in the image and the fill value
\* otherwise, and no input element outside the image is read.
C15_ConstantPad ==
    PadImageRan("constant") =>
        /\ status = "done"
        /\ PaddedShape
        /\ PadReadsInRange
        /\ \A s \in PadImageSlices, p \in PaddedCells :
              LET h == p[1] - op.pad_t
                  w == p[2] - op.pad_l
              IN PadY(s[1], s[2], p[1], p[2])
                    = IF /\ 0 <= h /\ h < PadImageHeight
                         /\ 0 <= w /\ w < PadImageWidth
                      THEN PadX(s[1], s[2], h, w)
                      ELSE op.value

\* C15's case: a finished constant-mode run in NHWC layout over two channels
\* with different top and left pads, holding the fill value in the padded
\* corner and the image's first cell behind the pads
C15_Witness ==
    /\ PadImageRan("constant") /\ status = "done"
    /\ op.order = "NHWC" /\ PadImageChannels = 2
    /\ op.pad_t = 2 /\ op.pad_l = 1 /\ op.pad_b = 1 /\ op.value = 0
    /\ PadImageWidth >= 2
    /\ PadY(0, 1, 0, 0) = 0
    /\ PadY(0, 1, 2, 1) = PadX(0, 1, 0, 0)
    /\ PadY(0, 1, 2, 2) = PadX(0, 1, 0, 1)

\* the mirror image of coordinate x about the edges 0 and size - 1, the edge
\* itself not repeated: k before 0 gives k, k past size - 1 gives size - 1 - k
PadMirror(x, size) ==
    IF x < 0 THEN -x
    ELSE IF x > size - 1 THEN (size - 1) - (x - (size - 1))
    ELSE x

\* every pad is smaller than the dimension it pads
PadImagePadsBelowDims ==
    /\ op.pad_t < PadImageHeight /\ op.pad_b < PadImageHeight
    /\ op.pad_l < PadImageWidth /\ op.pad_r < PadImageWidth

\* C16: in reflect mode, when every pad is smaller than the dimension it
\* pads, every source coordinate lies in the image and is the mirror image of
\* the padded coordinate, the edge not repeated: row k above the top edge
\* reads row k, row k below the bottom edge reads row height - 1 - k, and
\* likewise for columns.
C16_ReflectPad ==
    (PadImageRan("reflect") /\ PadImagePadsBelowDims) =>
        /\ status = "done"
        /\ PaddedShape
        /\ PadReadsInRange
        /\ \A s \in PadImageSlices, p \in PaddedCells :
              PadY(s[1], s[2], p[1], p[2])
                  = PadX(s[1], s[2], PadMirror(p[1] - op.pad_t, PadImageHeight),
                         PadMirror(p[2] - op.pad_l, PadImageWidth))

\* C16's case: a finished reflect-mode run over a 3 x 3 image with pads 2
\* above, 1 below and 1 left: the row 2 above the top edge holds row 2, the
\* row 1 below the bottom edge holds row 1
C16_Witness ==
    /\ PadImageRan("reflect") /\ status = "done" /\ PadImagePadsBelowDims
    /\ PadImageHeight = 3 /\ PadImageWidth = 3
    /\ op.pad_t = 2 /\ op.pad_b = 1 /\ op.pad_l = 1
    /\ PadY(0, 0, 0, 1) = PadX(0, 0, 2, 0)
    /\ PadY(0, 0, 5, 1) = PadX(0, 0, 1, 0)
    /\ PadY(0, 0, 2, 0) = PadX(0, 0, 0, 1)

\* x clamped to 0 .. size - 1
PadClamp(x, size) == IF x < 0 THEN 0 ELSE IF x > size - 1 THEN size - 1 ELSE x

\* C17: in edge mode, in both layouts and for any pads, the output at padded
\* position (ph, pw) is the input at (clamp(ph - pad_t, 0, height - 1),
\* clamp(pw - pad_l, 0, width - 1)) of the same batch and channel.
C17_EdgePad ==
    PadImageRan("edge") =>
        /\ status = "done"
        /\ PaddedShape
        /\ PadReadsInRange
        /\ \A s \in PadImageSlices, p \in PaddedCells :
              PadY(s[1], s[2], p[1], p[2])
                  = PadX(s[1], s[2], PadClamp(p[1] - op.pad_t, PadImageHeight),
                         PadClamp(p[2] - op.pad_l, PadImageWidth))

\* C17's case: a finished edge-mode run over a one-row image of two columns
\* with pads larger than the image: the padded corners hold the image's corner
\* cells
C17_Witness ==
    /\ PadImageRan("edge") /\ status = "done"
    /\ PadImageHeight = 1 /\ PadImageWidth = 2
    /\ op.pad_t = 2 /\ op.pad_l = 2 /\ op.pad_b = 1 /\ op.pad_r = 1
    /\ PadY(0, 0, 0, 0) = PadX(0, 0, 0, 0)
    /\ PadY(0, 0, 3, 4) = PadX(0, 0, 0, 1)
    /\ PadX(0, 0, 0, 0) # PadX(0, 0, 0, 1)

(***************************************************************************)
(* pad_op_hip.cc: PadImageGradientOp, thread by thread.                    *)
(*                                                                         *)
(* The host issues math::Set and the gradient kernel on the operator's     *)
(* stream and returns; the stream runs its kernels in the order of issue,  *)
(* a kernel's threads in any order.  op and blobs are those of SpecPad.    *)
(* aux = [stream, stores, adds, reads, outside, previous, runs]:           *)
(*   stream   the kernels issued and not yet finished, the oldest first,   *)
(*            each [kernel, pending] with the threads that have not run;   *)
(*   stores   per element of dX, the plain stores the gradient kernel of   *)
(*            this run has made to it;                                     *)
(*   adds     per element of dY, the atomic adds made for it that landed   *)
(*            in dX;                                                       *)
(*   reads    the elements of dY a constant-mode kernel has read;          *)
(*   outside  the elements of dY whose atomic add fell outside dX;         *)
(*   previous dX as the previous run left it (<<>> in the first run);      *)
(*   runs     the runs issued so far.                                      *)
(***************************************************************************)
\* the runs of one operator instance explored
PadMaxRuns == 2

\* the largest padded tensor explored thread by thread
MaxPadThreads == 6

\* a slip: pad_l left out of the source column
PadGradConstSourceNoPadL(k, index) ==
    LET nc0 == CDiv(index, k.width)
        pw  == CMod(index, k.width)
        ph  == CMod(nc0, k.height) + k.pad_t
        nc  == CDiv(nc0, k.height)
    IN  (nc * k.padded_height + ph) * k.padded_width + pw

\* PadImageGradientConstNCHW: the element of top_diff stored in
\* bottom_diff[index]
PadGradConstSourceNCHW(k, index) ==
    LET nc0 == CDiv(index, k.width)
        pw  == CMod(index, k.width) + k.pad_l
        ph  == CMod(nc0, k.height) + k.pad_t
        nc  == CDiv(nc0, k.height)
    IN  (nc * k.padded_height + ph) * k.padded_width + pw

\* PadImageGradientConstNHWC: the element of top_diff stored in
\* bottom_diff[index]
PadGradConstSourceNHWC(k, index) ==
    LET n0 == CDiv(index, k.channels)
        c  == CMod(index, k.channels)
        pw == CMod(n0, k.width) + k.pad_l
        n1 == CDiv(n0, k.width)
        ph == CMod(n1, k.height) + k.pad_t
        n  == CDiv(n1, k.height)
    IN  ((n * k.padded_height + ph) * k.padded_width + pw) * k.channels + c

PadGradConstSource(order, k, index) ==
    IF order = "NCHW" THEN PadGradConstSourceNCHW(k, index)
                      ELSE PadGradConstSourceNHWC(k, index)

\* a slip: a store where the kernel adds
PadStoreForAdd(old, v) == v

\* atomicAdd(&bottom_diff[...], top_diff[index]): the element's new value
PadAtomicAdd(old, v) == old + v

\* the iterations of one thread of math::Set over its indices
RECURSIVE PadSetLoop(_, _)
PadSetLoop(indices, data) ==
    IF indices = {} THEN data
    ELSE LET index == FirstIndex(indices)
         IN PadSetLoop(indices \ {index}, [data EXCEPT ![index + 1] = 0])

\* the iterations of one thread of PadImageGradientConst* over its indices;
\* bufs = [bottom_diff, stores, reads]
RECURSIVE PadGradientConstLoop(_, _, _, _, _)
PadGradientConstLoop(order, k, top_diff, indices, bufs) ==
    IF indices = {} THEN bufs
    ELSE LET index == FirstIndex(indices)
             from == PadGradConstSource(order, k, index)
         IN PadGradientConstLoop(order, k, top_diff, indices \ {index},
               [bottom_diff |-> [bufs.bottom_diff EXCEPT ![index + 1] =
                                    At(top_diff, from)],
                stores |-> [bufs.stores EXCEPT ![index + 1] = @ + 1],
                reads  |-> bufs.reads \cup {from}])

\* the iterations of one thread of PadImageGradientReflect* or
\* PadImageGradientEdge* over its indices; bufs = [bottom_diff, adds, outside]
RECURSIVE PadGradientAddLoop(_, _, _, _, _, _)
PadGradientAddLoop(order, mode, k, top_diff, indices, bufs) ==
    IF indices = {} THEN bufs
    ELSE LET index == FirstIndex(indices)
             t == PadGradTarget(order, mode, k, index)
         IN PadGradientAddLoop(order, mode, k, top_diff, indices \ {index},
               IF t >= 0 /\ t < Len(bufs.bottom_diff)
               THEN [bufs EXCEPT
                       !.bottom_diff[t + 1] = PadAtomicAdd(@, At(top_diff, index)),
                       !.adds[index + 1] = @ + 1]
               ELSE [bufs EXCEPT !.outside = @ \cup {index}])

\* the name of the gradient kernel of a mode
PadGradientKernel(mode) ==
    IF mode = "constant" THEN "PadImageGradientConst"
    ELSE IF mode = "reflect" THEN "PadImageGradientReflect"
    ELSE "PadImageGradientEdge"

\* a slip: the gradient kernel launched without the zero fill
PadGradientStreamNoFill(mode, input_size, output_size) ==
    <<[kernel |-> PadGradientKernel(mode),
       pending |-> GridThreads(IF mode = "constant" THEN output_size
                               ELSE input_size)]>>

\* what a run puts on the stream: math::Set over output_size elements, then
\* the mode's kernel, over output_size indices in constant mode and over
\* input_size indices otherwise
PadGradientStream(mode, input_size, output_size) ==
    <<[kernel |-> "Set", pending |-> GridThreads(output_size)],
      [kernel |-> PadGradientKernel(mode),
       pending |-> GridThreads(IF mode = "constant" THEN output_size
                               ELSE input_size)]>>

\* the stream after thread t of its oldest kernel has run
PadStreamAfter(stream, t) ==
    IF Head(stream).pending = {t} THEN Tail(stream)
    ELSE <<[Head(stream) EXCEPT !.pending = @ \ {t}]>> \o Tail(stream)

\* PadImageGradientOp::RunOnDeviceWithOrderNCHW / ...NHWC up to its return:
\* dX resized, its buffer kept when it had the size already and new
\* otherwise, and the two kernels issued
IssuePadImageGradient ==
    /\ op.type = "PadImageGradient"
    /\ status = "ready" \/ (status = "done" /\ aux.runs < PadMaxRuns)
    /\ LET dY          == blobs.dY
           dXdims      == PadGradientDims(op, dY)
           input_size  == Size(dY)
           output_size == Prod(dXdims)
           issued      == PadGradientStream(op.mode, input_size, output_size)
       IN  /\ \E stale \in StaleValues :
                 blobs' = [blobs EXCEPT !.dX =
                    Tensor("float", dXdims,
                           IF Len(blobs.dX.data) = output_size THEN blobs.dX.data
                           ELSE [i \in 1..output_size |-> stale])]
           /\ aux' = [stream   |-> issued,
                      stores   |-> [i \in 1..output_size |-> 0],
                      adds     |-> [i \in 1..input_size |-> 0],
                      reads    |-> {},
                      outside  |-> {},
                      previous |-> IF status = "done" THEN blobs.dX.data ELSE <<>>,
                      runs     |-> aux.runs + 1]
           /\ launches' = launches \o
                 [i \in 1..Len(issued) |-> <<issued[i].kernel, op.mode, op.order>>]
    /\ status' = "running"
    /\ UNCHANGED op

\* one thread of math::Set runs
PadSetThread ==
    /\ status = "running"
    /\ aux.stream # <<>>
    /\ Head(aux.stream).kernel = "Set"
    /\ \E t \in Head(aux.stream).pending :
          /\ blobs' = [blobs EXCEPT !.dX.data =
                          PadSetLoop(KernelLoop(t, Size(blobs.dX)), @)]
          /\ aux' = [aux EXCEPT !.stream = PadStreamAfter(@, t)]
          /\ status' = IF PadStreamAfter(aux.stream, t) = <<>> THEN "done"
                       ELSE "running"
    /\ UNCHANGED <<op, launches>>

\* one thread of PadImageGradientConstNCHW or ...NHWC runs
PadGradientConstThread ==
    /\ status = "running"
    /\ aux.stream # <<>>
    /\ Head(aux.stream).kernel = "PadImageGradientConst"
    /\ \E t \in Head(aux.stream).pending :
          LET k == PadKernelArgs(op, blobs.dX.dims, blobs.dY)
              bufs == PadGradientConstLoop(op.order, k, blobs.dY.data,
                         KernelLoop(t, Size(blobs.dX)),
                         [bottom_diff |-> blobs.dX.data, stores |-> aux.stores,
                          reads |-> aux.reads])
          IN /\ blobs' = [blobs EXCEPT !.dX.data = bufs.bottom_diff]
             /\ aux' = [aux EXCEPT !.stream = PadStreamAfter(@, t),
                                   !.stores = bufs.stores,
                                   !.reads = bufs.reads]
             /\ status' = IF PadStreamAfter(aux.stream, t) = <<>> THEN "done"
                          ELSE "running"
    /\ UNCHANGED <<op, launches>>

\* one thread of PadImageGradientReflect* or PadImageGradientEdge* runs.  An
\* atomicAdd to an address outside dX is undefined behaviour: it changes
\* nothing of dX and the run goes on, or the device reports a memory fault.
PadGradientAddThread ==
    /\ status = "running"
    /\ aux.stream # <<>>
    /\ Head(aux.stream).kernel \in {"PadImageGradientReflect", "PadImageGradientEdge"}
    /\ \E t \in Head(aux.stream).pending :
          LET k == PadKernelArgs(op, blobs.dX.dims, blobs.dY)
              bufs == PadGradientAddLoop(op.order, op.mode, k, blobs.dY.data,
                         KernelLoop(t, Size(blobs.dY)),
                         [bottom_diff |-> blobs.dX.data, adds |-> aux.adds,
                          outside |-> aux.outside])
          IN /\ blobs' = [blobs EXCEPT !.dX.data = bufs.bottom_diff]
             /\ aux' = [aux EXCEPT !.stream = PadStreamAfter(@, t),
                                   !.adds = bufs.adds,
                                   !.outside = bufs.outside]
             /\ \/ status' = IF PadStreamAfter(aux.stream, t) = <<>> THEN "done"
                             ELSE "running"
                \/ /\ bufs.outside # aux.outside
                   /\ status' = "memory fault"
    /\ UNCHANGED <<op, launches>>

\* (num, channels, height, width) of the unpadded images explored thread by
\* thread
PadThreadShapes ==
    {<<1, 1, 1, 1>>, <<1, 1, 1, 2>>, <<1, 1, 2, 1>>, <<1, 2, 1, 1>>,
     <<2, 1, 1, 1>>, <<1, 1, 1, 3>>, <<1, 1, 2, 2>>}

InitPadThreads ==
    /\ \E mode \in PadModes, order \in PadOrders,
          pad_t \in PadHeadPads, pad_l \in PadHeadPads,
          pad_b \in PadTailPads, pad_r \in PadTailPads, d \in PadThreadShapes :
         /\ op = [type |-> "PadImageGradient", mode |-> mode, order |-> order,
                  pad_t |-> pad_t, pad_l |-> pad_l, pad_b |-> pad_b, pad_r |-> pad_r]
         /\ Prod(PaddedDims(op, d)) <= MaxPadThreads
         /\ \E dYdata \in PadUpstreamGradients(Prod(PaddedDims(op, d))) :
              blobs = [dY |-> Tensor("float", PaddedDims(op, d), dYdata),
                       dX |-> NoTensor]
    /\ aux = [stream |-> <<>>, stores |-> <<>>, adds |-> <<>>, reads |-> {},
              outside |-> {}, previous |-> <<>>, runs |-> 0]
    /\ launches = <<>>
    /\ status = "ready"

NextPadThreads ==
    \/ IssuePadImageGradient
    \/ PadSetThread
    \/ PadGradientConstThread
    \/ PadGradientAddThread

SpecPadThreads == InitPadThreads /\ [][NextPadThreads]_vars

(***************************************************************************)
(* Claims about the padding gradient's kernels (checked under              *)
(* SpecPadThreads).                                                        *)
(***************************************************************************)
\* dY at padded cell (n, c, ph, pw)
PadDY(n, c, ph, pw) ==
    LET k == PadK
    IN  At(blobs.dY.data,
           IF op.order = "NCHW"
           THEN ((n * k.channels + c) * k.padded_height + ph) * k.padded_width + pw
           ELSE ((n * k.padded_height + ph) * k.padded_width + pw) * k.channels + c)

\* the flat position in dY of padded cell (n, c, ph, pw)
PadDYIndex(n, c, ph, pw) ==
    LET k == PadK
    IN  IF op.order = "NCHW"
        THEN ((n * k.channels + c) * k.padded_height + ph) * k.padded_width + pw
        ELSE ((n * k.padded_height + ph) * k.padded_width + pw) * k.channels + c

\* the slices (n, c), the image's cells (h, w) and the padded cells (ph, pw)
PadGradSlices == (0..(PadK.num - 1)) \X (0..(PadK.channels - 1))

PadGradCells == (0..(PadK.height - 1)) \X (0..(PadK.width - 1))

PadGradPaddedCells == (0..(PadK.padded_height - 1)) \X (0..(PadK.padded_width - 1))

\* the padded cells in the border: outside the image shifted by the pads
PadBorder ==
    {p \in PadGradPaddedCells :
        \/ p[1] < op.pad_t \/ p[1] >= op.pad_t + PadK.height
        \/ p[2] < op.pad_l \/ p[2] >= op.pad_l + PadK.width}

\* the gradient run in the given modes has finished
PadGradientDone(modes) ==
    op.type = "PadImageGradient" /\ op.mode \in modes /\ status = "done"

\* C18: the constant-mode gradient is a crop: dX at (h, w) is dY at
\* (h + pad_t, w + pad_l) of the same batch and channel; the gradient kernel
\* stores to every element of dX exactly once and makes no atomic add; no
\* border element of dY is read, so none contributes to dX.
C18_ConstantGradient ==
    /\ (op.mode = "constant" /\ status \in {"running", "done"}) =>
          /\ \A i \in DOMAIN aux.stores : aux.stores[i] <= 1
          /\ \A j \in DOMAIN aux.adds : aux.adds[j] = 0
          /\ aux.outside = {}
    /\ PadGradientDone({"constant"}) =>
          /\ \A i \in DOMAIN aux.stores : aux.stores[i] = 1
          /\ Len(aux.stores) = Size(blobs.dX)
          /\ \A s \in PadGradSlices :
                /\ \A hw \in PadGradCells :
                      PadDX(s[1], s[2], hw[1], hw[2])
                          = PadDY(s[1], s[2], hw[1] + op.pad_t, hw[2] + op.pad_l)
                /\ \A p \in PadBorder :
                      PadDYIndex(s[1], s[2], p[1], p[2]) \notin aux.reads

\* C18's case: a finished constant-mode run over an image of two cells or more
\* inside a border on two sides, fed a different gradient in every cell
C18_Witness ==
    /\ PadGradientDone({"constant"})
    /\ Size(blobs.dX) >= 2
    /\ op.pad_t + op.pad_l >= 1 /\ op.pad_b + op.pad_r >= 1
    /\ blobs.dY.data[1] # blobs.dY.data[2]
    /\ PadDX(0, 0, 0, 0) = PadDY(0, 0, op.pad_t, op.pad_l)
    /\ \A i \in DOMAIN aux.stores : aux.stores[i] = 1
    /\ Cardinality(aux.reads) = Size(blobs.dX)

\* the padded cells whose forward source is image cell (h, w)
PadSourcedFrom(h, w) ==
    {p \in PadGradPaddedCells : PadForwardSource(p[1], p[2]) = [h |-> h, w |-> w]}

\* dX holds, at every cell, the sum of dY over the padded cells whose forward
\* source is that cell; every element of dY was added once; the sums of dX
\* and dY agree
PadAccumulated ==
    /\ aux.outside = {}
    /\ \A j \in DOMAIN aux.adds : aux.adds[j] = 1
    /\ Len(aux.adds) = Size(blobs.dY)
    /\ \A s \in PadGradSlices, hw \in PadGradCells :
          LET from == PadSourcedFrom(hw[1], hw[2])
          IN PadDX(s[1], s[2], hw[1], hw[2])
                = SumOver(from, [p \in from |-> PadDY(s[1], s[2], p[1], p[2])])
    /\ SumSeq(blobs.dX.data) = SumSeq(blobs.dY.data)

\* C19 as claimed: in reflect and edge mode, whatever the order of the atomic
\* adds, the finished dX holds at each cell the sum of dY over the padded cells
\* whose forward source is that cell, no contribution lost or counted twice,
\* and the total of dX is the total of dY.
C19_AccumulatedAlways ==
    PadGradientDone({"reflect", "edge"}) => PadAccumulated

\* C19 as amended: in edge mode, and in reflect mode when every pad is smaller
\* than the dimension it pads, whatever the order of the atomic adds, the run
\* finishes and dX holds at each cell the sum of dY over the padded cells
\* whose forward source is that cell, no contribution lost or counted twice,
\* and the total of dX is the total of dY.
C19_Accumulated ==
    (/\ op.mode \in {"reflect", "edge"}
     /\ status \in {"running", "done", "memory fault"}
     /\ op.mode = "reflect" => PadsBelowDims) =>
        /\ status # "memory fault"
        /\ \A j \in DOMAIN aux.adds : aux.adds[j] <= 1
        /\ status = "done" => PadAccumulated

\* C19's case: a finished reflect-mode run with pads below the dimensions in
\* which one cell of dX received three gradients, all different
C19_Witness ==
    /\ PadGradientDone({"reflect"}) /\ PadsBelowDims
    /\ Size(blobs.dY) >= 3
    /\ blobs.dY.data[1] # blobs.dY.data[2]
    /\ \E hw \in PadGradCells :
          /\ Cardinality(PadSourcedFrom(hw[1], hw[2])) >= 3
          /\ PadDX(0, 0, hw[1], hw[2]) >= 6
    /\ PadAccumulated

\* the gradient kernel of the run has made a store or an add
PadGradientStarted ==
    \/ \E i \in DOMAIN aux.stores : aux.stores[i] > 0
    \/ \E j \in DOMAIN aux.adds : aux.adds[j] > 0
    \/ aux.outside # {}

\* C20: every run issues the zero fill of the whole of dX on the stream
\* before its gradient kernel; the fill has finished, and dX is zero
\* everywhere, before the gradient kernel makes its first store or add; a
\* second run on the buffer that holds the first run's result leaves the same
\* dX.
C20_ZeroFillFirst ==
    /\ \A i \in 1..Len(launches) :
          launches[i][1] # "Set" => i > 1 /\ launches[i - 1][1] = "Set"
    /\ status = "running" =>
          /\ \A i \in 2..Len(aux.stream) : aux.stream[i].kernel # "Set"
          /\ PadGradientStarted => Head(aux.stream).kernel # "Set"
          /\ (Head(aux.stream).kernel # "Set" /\ ~PadGradientStarted) =>
                \A i \in 1..Size(blobs.dX) : blobs.dX.data[i] = 0
    /\ (status = "done" /\ aux.runs >= 2) => blobs.dX.data = aux.previous

\* C20's case: a second edge-mode run has finished on the buffer that held the
\* first run's sums, and left the same sums
C20_Witness ==
    /\ PadGradientDone({"edge"})
    /\ aux.runs = 2
    /\ Len(launches) = 4
    /\ blobs.dX.data = aux.previous
    /\ \E i \in 1..Size(blobs.dX) : blobs.dX.data[i] >= 3

(***************************************************************************)
(* Claims about the memory safety of max pooling (checked under SpecPool). *)
(***************************************************************************)
\* the reads bottom_slice[h * width + w] of the iteration of MaxPoolForward
\* for index: one per cell of the two scan loops, each [n, c, h, w, at] with
\* at the element of bottom_data addressed
MaxPoolForwardReads(k, index) ==
    LET o == PoolOutCoord(k, index)
        win == PoolWindow(k, o.ph, o.pw)
    IN {[n |-> o.n, c |-> o.c, h |-> h, w |-> w,
         at |-> PoolSlice(k, o.n, o.c) + FlatIndex(h, w, k.width)] :
            h \in win.hstart..(win.hend - 1), w \in win.wstart..(win.wend - 1)}

\* the kernel arguments of the finished forward pass
PoolK == PoolKernelArgs(op, blobs.X, Dim32(blobs.Y, 2), Dim32(blobs.Y, 3))

\* every read of the forward pass is of a cell of the image, in the slice of
\* the output cell it was made for
PoolReadsInSlice ==
    \A index \in 0..(Size(blobs.Y) - 1) :
        \A r \in MaxPoolForwardReads(PoolK, index) :
            /\ 0 <= r.h /\ r.h < PoolK.height
            /\ 0 <= r.w /\ r.w < PoolK.width
            /\ r.at = ((r.n * PoolK.channels + r.c) * PoolK.height + r.h)
                          * PoolK.width + r.w
            /\ 0 <= r.at /\ r.at < Size(blobs.X)
            /\ r.n = PoolOutCoord(PoolK, index).n
            /\ r.c = PoolOutCoord(PoolK, index).c

\* C30: for every kernel, stride and pad, MaxPoolForward reads only cells
\* 0 <= h < height, 0 <= w < width of the output cell's own slice; every mask
\* value is -1 or lies in [0, height * width), and it is -1 only when the
\* clamped window is empty or holds no value above -FLT_MAX; MaxPoolBackward
\* gives dX the gradient of the output cells whose mask names a cell, and
\* that of an output cell with mask -1 to none.
C30_PoolInBounds ==
    /\ PoolForwardDone =>
          /\ PoolReadsInSlice
          /\ \A s \in PoolSlices, p \in PoolOutCells :
                LET m == At(blobs.mask.data, PoolOutIndex(s[1], s[2], p[1], p[2]))
                IN /\ m = -1 \/ (0 <= m /\ m < PoolK.height * PoolK.width)
                   /\ m = -1 =>
                         \A hw \in WindowCells(p[1], p[2]) :
                             PoolX(s[1], s[2], hw[1], hw[2]) <= -FLT_MAX
    /\ PoolBackwardDone =>
          \A s \in PoolSlices :
              LET named == {p \in PoolOutCells :
                              At(blobs.mask.data,
                                 PoolOutIndex(s[1], s[2], p[1], p[2])) # -1}
              IN /\ \A p \in PoolOutCells \ named, hw \in PoolInCells :
                       p \notin ArgmaxOf(s[1], s[2], hw[1], hw[2])
                 /\ SumOver(PoolInCells,
                       [hw \in PoolInCells |-> PoolDX(s[1], s[2], hw[1], hw[2])])
                    = SumOver(named,
                         [p \in named |-> PoolDY(s[1], s[2], p[1], p[2])])
                 /\ named = {} =>
                       \A hw \in PoolInCells : PoolDX(s[1], s[2], hw[1], hw[2]) = 0

\* C30's case: a backward pass over a second slice in which one output cell
\* has an empty clamped window and mask -1, another a window clamped by the
\* pad and a mask that names a cell
C30_Witness ==
    /\ PoolBackwardDone
    /\ \E s \in PoolSlices, p \in PoolOutCells, q \in PoolOutCells :
          /\ s[1] + s[2] >= 1
          /\ WindowCells(p[1], p[2]) = {}
          /\ At(blobs.mask.data, PoolOutIndex(s[1], s[2], p[1], p[2])) = -1
          /\ WindowCells(q[1], q[2]) # {}
          /\ Cardinality(WindowCells(q[1], q[2])) < op.kernel_h * op.kernel_w
          /\ At(blobs.mask.data, PoolOutIndex(s[1], s[2], q[1], q[2])) >= 0
          /\ \E hw \in PoolInCells : PoolDX(s[1], s[2], hw[1], hw[2]) > 0

(***************************************************************************)
(* PadImage and PadImageGradient side by side: both operators, both        *)
(* layouts, one run each.                                                  *)
(***************************************************************************)
InitPadBoth == InitPadImage \/ InitPad

NextPadBoth ==
    \/ RunPadImage
    \/ RunPadImageGradient

SpecPadBoth == InitPadBoth /\ [][NextPadBoth]_vars

(***************************************************************************)
(* Claims about the two layouts (checked under SpecPadBoth).               *)
(***************************************************************************)
\* the NHWC arrangement of an NCHW buffer of dims (num, channels, height,
\* width), and the NCHW arrangement of an NHWC buffer of those dims
ToNHWC(data, channels, height, width) ==
    [i \in 1..Len(data) |->
        LET c == CMod(i - 1, channels)
            w == CMod(CDiv(i - 1, channels), width)
            h == CMod(CDiv(CDiv(i - 1, channels), width), height)
            n == CDiv(CDiv(CDiv(i - 1, channels), width), height)
        IN At(data, ((n * channels + c) * height + h) * width + w)]

ToNCHW(data, channels, height, width) ==
    [i \in 1..Len(data) |->
        LET w == CMod(i - 1, width)
            h == CMod(CDiv(i - 1, width), height)
            c == CMod(CDiv(CDiv(i - 1, width), height), channels)
            n == CDiv(CDiv(CDiv(i - 1, width), height), channels)
        IN At(data, ((n * height + h) * width + w) * channels + c)]

\* what the forward kernel of a layout and mode leaves in top_data
PadImageKernel(order, mode, nthreads, bottom_data, k, value, garbage) ==
    IF order = "NCHW"
    THEN IF mode = "constant"
         THEN PadImageConstNCHW(nthreads, bottom_data, k, value, garbage)
         ELSE IF mode = "reflect"
         THEN PadImageReflectNCHW(nthreads, bottom_data, k, garbage)
         ELSE PadImageEdgeNCHW(nthreads, bottom_data, k, garbage)
    ELSE IF mode = "constant"
         THEN PadImageConstNHWC(nthreads, bottom_data, k, value, garbage)
         ELSE IF mode = "reflect"
         THEN PadImageReflectNHWC(nthreads, bottom_data, k, garbage)
         ELSE PadImageEdgeNHWC(nthreads, bottom_data, k, garbage)

\* what the zero fill and the gradient kernel of a layout and mode leave in
\* bottom_diff
PadImageGradientKernel(order, mode, output_size, top_diff, k) ==
    IF mode = "constant"
    THEN IF order = "NCHW"
         THEN PadImageGradientConstNCHW(output_size, top_diff, k)
         ELSE PadImageGradientConstNHWC(output_size, top_diff, k)
    ELSE PadImageGradientAccumulate(order, mode, Len(top_diff), top_diff, k,
                                    PadZeroFill(output_size))

\* the addresses outside X's data that the forward kernel of either layout
\* reads in the finished PadImage run
PadBothOutside ==
    LET k == PadKernelArgs(op, blobs.X.dims, blobs.Y)
    IN PadImageOutside("NCHW", op.mode, k, Size(blobs.Y), Size(blobs.X))
       \cup PadImageOutside("NHWC", op.mode, k, Size(blobs.Y), Size(blobs.X))

\* the finished PadImage run agrees with the other layout: with X taken to
\* NCHW, the NHWC kernel on the NHWC arrangement of X gives the NHWC
\* arrangement of what the NCHW kernel gives on X, and Y is the result in the
\* operator's own layout; garbage is what the memory outside the data holds
PadImageLayoutsAgree(garbage) ==
    LET k  == PadKernelArgs(op, blobs.X.dims, blobs.Y)
        Xn == IF op.order = "NCHW" THEN blobs.X.data
              ELSE ToNCHW(blobs.X.data, k.channels, k.height, k.width)
        Xh == ToNHWC(Xn, k.channels, k.height, k.width)
        Yn == PadImageKernel("NCHW", op.mode, Size(blobs.Y), Xn, k, op.value,
                             garbage)
        Yh == PadImageKernel("NHWC", op.mode, Size(blobs.Y), Xh, k, op.value,
                             garbage)
    IN /\ Yh = ToNHWC(Yn, k.channels, k.padded_height, k.padded_width)
       /\ blobs.Y.data = IF op.order = "NCHW" THEN Yn ELSE Yh

\* the same of the finished PadImageGradient run, dY to dX
PadGradientLayoutsAgree ==
    LET k   == PadKernelArgs(op, blobs.dX.dims, blobs.dY)
        dYn == IF op.order = "NCHW" THEN blobs.dY.data
               ELSE ToNCHW(blobs.dY.data, k.channels, k.padded_height,
                           k.padded_width)
        dYh == ToNHWC(dYn, k.channels, k.padded_height, k.padded_width)
        dXn == PadImageGradientKernel("NCHW", op.mode, Size(blobs.dX), dYn, k)
        dXh == PadImageGradientKernel("NHWC", op.mode, Size(blobs.dX), dYh, k)
    IN /\ dXh = ToNHWC(dXn, k.channels, k.height, k.width)
       /\ blobs.dX.data = IF op.order = "NCHW" THEN dXn ELSE dXh

\* every pad of the finished run is smaller than the dimension it pads
PadBothPadsBelowDims ==
    LET k == IF op.type = "PadImage"
             THEN PadKernelArgs(op, blobs.X.dims, blobs.Y)
             ELSE PadKernelArgs(op, blobs.dX.dims, blobs.dY)
    IN /\ op.pad_t < k.height /\ op.pad_b < k.height
       /\ op.pad_l < k.width /\ op.pad_r < k.width

\* C21 as claimed: for every pad mode and every pad, a finished PadImage or
\* PadImageGradient run in one layout gives the other layout's result up to
\* the layout permutation.
C21_LayoutsAgreeAlways ==
    /\ (op.type = "PadImage" /\ status = "done") =>
          \E garbage \in PadGarbageAt(PadBothOutside) :
              PadImageLayoutsAgree(garbage)
    /\ (op.type = "PadImageGradient" /\ status = "done") =>
          PadGradientLayoutsAgree

\* C21 as amended: in constant and edge mode, and in reflect mode when every
\* pad is smaller than the dimension it pads, a PadImage or PadImageGradient
\* run in one layout finishes and gives the other layout's result up to the
\* layout permutation.
C21_LayoutsAgree ==
    (status # "ready" /\ (op.mode = "reflect" => PadBothPadsBelowDims)) =>
        /\ status = "done"
        /\ op.type = "PadImage" =>
              \A garbage \in PadGarbageAt(PadBothOutside) :
                  PadImageLayoutsAgree(garbage)
        /\ op.type = "PadImageGradient" => PadGradientLayoutsAgree

\* C21's case: a finished NHWC run of PadImage in reflect mode over two
\* channels of two columns with a left pad, whose result differs from its own
\* NCHW arrangement
C21_Witness ==
    /\ op.type = "PadImage" /\ status = "done"
    /\ op.order = "NHWC" /\ op.mode = "reflect"
    /\ PadBothPadsBelowDims
    /\ op.pad_l = 1
    /\ Dim32(blobs.X, 3) = 2 /\ Dim32(blobs.X, 2) = 2
    /\ blobs.Y.data # ToNCHW(blobs.Y.data, 2, Dim32(blobs.Y, 1),
                             Dim32(blobs.Y, 2))
    /\ \A garbage \in PadGarbageAt(PadBothOutside) :
                  PadImageLayoutsAgree(garbage)

(***************************************************************************)
(* Further claims about the distance operators (checked under SpecDist).   *)
(***************************************************************************)
\* sum over j of Y[i,j]^2
RowNorm2Y(i) == SumSeq([c \in 1..DistD |-> DistY(i, c - 1) * DistY(i, c - 1)])

\* dot / (nx * ny) for norms nx and ny given by their squares
CosineOf(dot, nx2, ny2) == SMul(SInt(dot), SInvSqrt(nx2 * ny2))

\* C22 as stated: CosineSimilarity returns for each row
\* dot(X, Y) / (max(||X||, eps) * max(||Y||, eps)) with eps = 1e-12 applied to
\* each norm; every nonzero norm of the inputs explored exceeds 1e-12, so
\* the clamp acts on zero vectors only, whose rows yield 0.
C22_ClampOnNormsAlways ==
    DistRan("CosineSimilarity") =>
        /\ status = "done"
        /\ \A i \in 0..(DistN - 1) :
              At(blobs.distance.data, i) =
                  IF RowNorm2(i) = 0 \/ RowNorm2Y(i) = 0 THEN SZero
                  ELSE CosineOf(RowDot(i), RowNorm2(i), RowNorm2Y(i))

\* C22, amended: CosineSimilarity returns for each row
\* dot(X, Y) / sqrt(max(||X||^2, eps) * max(||Y||^2, eps)) with eps = 1e-12,
\* the clamp being applied to each squared norm (so each norm is clamped at
\* 1e-6); a row where X or Y is the zero vector yields 0 and the run
\* finishes without a division by zero.
C22_ClampOnSquaredNorms ==
    DistRan("CosineSimilarity") =>
        /\ status = "done"
        /\ \A i \in 0..(DistN - 1) :
              /\ At(blobs.distance.data, i) =
                     CosineOf(RowDot(i), Max(RowNorm2(i), KEps), Max(RowNorm2Y(i), KEps))
              /\ (RowNorm2(i) = 0 \/ RowNorm2Y(i) = 0) =>
                     At(blobs.distance.data, i) = SZero

\* a finished run on two rows: X = Y = (-1), whose squared norm 1 is below
\* kEps = 4 and whose similarity comes out as 1/4, and X = (0) against
\* Y = (2), which yields 0
C22_Witness ==
    /\ DistRan("CosineSimilarity") /\ status = "done"
    /\ blobs.X.dims = <<2, 1>>
    /\ blobs.X.data = <<-1, 0>>
    /\ blobs.Y.data = <<-1, 2>>
    /\ blobs.distance.data = <<SNorm(1, 4, 1), SZero>>

\* the gradient operator in the state has been run on X and Y of one shape
\* and an upstream gradient with one element for each row
DistGradientRan(type) ==
    /\ DistRan(type)
    /\ DistGradientCheck(blobs.X, blobs.Y, blobs.dDistance, DistN) = "ok"

\* dDistance[i], dX[i, j] and dY[i, j]
DistG(i) == At(blobs.dDistance.data, i)

DistDX(i, j) == At(blobs.dX.data, i * DistD + j)

DistDY(i, j) == At(blobs.dY.data, i * DistD + j)

\* s * u + a * v for numbers s, a and integers u, v
Combine(s, u, a, v) == SAdd(SMul(s, SInt(u)), SMul(a, SInt(v)))

\* dCos / (nx * ny) for norms nx and ny given by their squares
CosineScale(dCos, nx2, ny2) == SDiv(SInt(dCos), SMul(SSqrt(nx2), SSqrt(ny2)))

\* the outputs of the gradient are s * Y + ax * X and s * X + ay * Y in row i
CosineGradientRow(i, s, ax, ay) ==
    \A j \in 0..(DistD - 1) :
        /\ DistDX(i, j) = Combine(s, DistY(i, j), ax, DistX(i, j))
        /\ DistDY(i, j) = Combine(s, DistX(i, j), ay, DistY(i, j))

\* C23 as stated: CosineSimilarityGradient computes per row
\* dX = s * Y + a_x * X and dY = s * X + a_y * Y with s = dCos divided by the
\* product of the two clamped norms, a_x = -(dCos * xy) / ||x||^2 and
\* a_y = -(dCos * xy) / ||y||^2 (rows with a zero vector, where these
\* quotients are undefined, left aside).
C23_CosineGradientAlways ==
    DistGradientRan("CosineSimilarityGradient") =>
        /\ status = "done"
        /\ \A i \in 0..(DistN - 1) :
              (RowNorm2(i) > 0 /\ RowNorm2Y(i) > 0) =>
                  CosineGradientRow(i,
                      CosineScale(DistG(i), Max(RowNorm2(i), KEps), Max(RowNorm2Y(i), KEps)),
                      SNorm(-(DistG(i) * RowDot(i)), RowNorm2(i), 1),
                      SNorm(-(DistG(i) * RowDot(i)), RowNorm2Y(i), 1))

\* C23, amended: CosineSimilarityGradient computes per row
\* dX = s * Y + a_x * X and dY = s * X + a_y * Y, where
\* s = dCos / (cx * cy) with cx = sqrt(max(||x||^2, eps)) and
\* cy = sqrt(max(||y||^2, eps)), a_x = -(s * xy) / cx^2 and
\* a_y = -(s * xy) / cy^2 with xy = dot(X, Y); running it again with X and
\* Y exchanged gives the former dY as dX and the former dX as dY.
C23_CosineGradient ==
    DistGradientRan("CosineSimilarityGradient") =>
        /\ status = "done"
        /\ \A i \in 0..(DistN - 1) :
              LET cx2 == Max(RowNorm2(i), KEps)
                  cy2 == Max(RowNorm2Y(i), KEps)
                  s   == CosineScale(DistG(i), cx2, cy2)
              IN  CosineGradientRow(i, s,
                      SDiv(SNeg(SMul(s, SInt(RowDot(i)))), SInt(cx2)),
                      SDiv(SNeg(SMul(s, SInt(RowDot(i)))), SInt(cy2)))
        /\ blobs.previous # NoTensor =>
              /\ blobs.dX = blobs.previous.dY
              /\ blobs.dY = blobs.previous.dX

\* a second run with X and Y exchanged, now X = (2, -1) and Y = (2, 2) with
\* dCos = 1: xy = 2, cx^2 = 5, cy^2 = 8, s = 1/sqrt(40), and
\* dX = s * Y - (2 s / 5) * X = (3, 6) * sqrt(10) / 50 differs from
\* dY = s * X - (2 s / 8) * Y = (3, -3) * sqrt(10) / 40
C23_Witness ==
    /\ DistGradientRan("CosineSimilarityGradient") /\ status = "done"
    /\ blobs.previous # NoTensor
    /\ blobs.X.dims = <<1, 2>>
    /\ blobs.X.data = <<2, -1>>
    /\ blobs.Y.data = <<2, 2>>
    /\ blobs.dDistance.data = <<1>>
    /\ blobs.dX.data = <<SNorm(3, 50, 10), SNorm(6, 50, 10)>>
    /\ blobs.dY.data = <<SNorm(3, 40, 10), SNorm(-3, 40, 10)>>
    /\ blobs.previous.dX.data = blobs.dY.data

(***************************************************************************)
(* distance_op_hip.cc thread by thread (SpecDistThreads).                  *)
(*                                                                         *)
(* RunOnDevice checks its inputs, resizes its outputs and issues its       *)
(* kernels to the stream of the context, which runs them one after the     *)
(* other.  A kernel of this file runs as a grid of blocks of               *)
(* CAFFE_HIP_NUM_THREADS threads, the threads in any order; one step is    *)
(* one iteration of a thread's HIP_1D_KERNEL_LOOP, or one stretch of a     *)
(* thread of a reduction kernel from one barrier to the next.  A routine   *)
(* of math:: runs in one step.                                             *)
(*                                                                         *)
(* blobs = [X, Y, dDistance, distance, dX, dY, xn, yn, xy, xyn, scale,     *)
(* axpy_scale], the last six being the parts of aux_.  The inputs and the  *)
(* outputs of SquaredL2DistanceGradient and L1DistanceGradient hold        *)
(* integers, every other buffer holds numbers [num, den, rt].              *)
(* aux = [stream, thread, temp, visits, summed]:                           *)
(*   stream  the kernels issued and not finished, the oldest first;        *)
(*   thread  for each thread of the oldest kernel its loop index i, its    *)
(*           position pc ("loop", "reduce" inside BlockReduce, "sync" at   *)
(*           __syncthreads, "exit"), the value BlockReduce returned to it  *)
(*           and the number of barriers it has arrived at;                 *)
(*   temp    the shared temp_storage of each block: for each thread the    *)
(*           partial sum it deposited and the row it was computed for;     *)
(*   visits  for each index of the oldest kernel the threads (of a         *)
(*           reduction kernel: the blocks) that have processed it;         *)
(*   summed  for each row a reduction kernel has written, the deposits     *)
(*           that entered the value written.                               *)
(***************************************************************************)
\* distance: the largest grid of a launch (CAFFE_MAXIMUM_NUM_BLOCKS of the
\* build is larger; here a batch has more rows than that, so a block takes
\* several rows)
CAFFE_MAXIMUM_NUM_BLOCKS == 2

DistReductionKernels == {"SquaredL2DistanceKernel", "L1DistanceKernel", "DotProductKernel"}

DistElementwiseKernels ==
    {"StripedScaleKernel", "L1DistanceGradientKernel", "BatchedMul", "Scale2AxpyScale",
     "BatchedAxpy"}

DistMathRoutines ==
    {"math::Sub", "math::Scale", "math::Maximum", "math::Sqrt", "math::Mul", "math::Div"}

\* a launch: the kernel, its grid, its arguments N and D, the bound n of its
\* outer loop and the buffers it is given, in the order of its parameters
DistKernel(name, grid, N, D, n, args) ==
    [name |-> name, grid |-> grid, N |-> N, D |-> D, n |-> n, args |-> args]

\* a routine of math:: over n elements
DistMath(name, n, args) == DistKernel(name, 0, n, 1, n, args)

\* SquaredL2DistanceOp, L1DistanceOp, DotProductOp: one reduction kernel in
\* std::min(N, CAFFE_MAXIMUM_NUM_BLOCKS) blocks
DistReductionStream(name, N, D) ==
    <<DistKernel(name, Min(N, CAFFE_MAXIMUM_NUM_BLOCKS), N, D, N, <<"X", "Y", "distance">>)>>

\* SquaredL2DistanceGradientOp: dX = X - Y, dX scaled in place, dY = -dX
SquaredL2DistanceGradientStream(N, D) ==
    <<DistMath("math::Sub", N * D, <<"X", "Y", "dX">>),
      DistKernel("StripedScaleKernel", CAFFE_GET_BLOCKS(N * D), N, D, N * D,
                 <<"dDistance", "dX", "dX">>),
      DistMath("math::Scale", N * D, <<"dX", "dY">>)>>

\* L1DistanceGradientOp
L1DistanceGradientStream(N, D) ==
    <<DistKernel("L1DistanceGradientKernel", CAFFE_GET_BLOCKS(N * D), N, D, N * D,
                 <<"X", "Y", "dDistance", "dX", "dY">>)>>

\* CosineSimilarityGradientOp: every kernel in
\* std::min(N, CAFFE_MAXIMUM_NUM_BLOCKS) blocks
CosineSimilarityGradientStream(N, D) ==
    LET grid == Min(N, CAFFE_MAXIMUM_NUM_BLOCKS)
    IN  <<DistKernel("DotProductKernel", grid, N, D, N, <<"X", "X", "xn">>),
          DistMath("math::Maximum", N, <<"xn", "xn">>),
          DistMath("math::Sqrt", N, <<"xn", "xn">>),
          DistKernel("DotProductKernel", grid, N, D, N, <<"Y", "Y", "yn">>),
          DistMath("math::Maximum", N, <<"yn", "yn">>),
          DistMath("math::Sqrt", N, <<"yn", "yn">>),
          DistMath("math::Mul", N, <<"xn", "yn", "xyn">>),
          DistKernel("DotProductKernel", grid, N, D, N, <<"X", "Y", "xy">>),
          DistMath("math::Div", N, <<"dDistance", "xyn", "scale">>),
          DistKernel("BatchedMul", grid, N, D, N * D, <<"Y", "scale", "dX">>),
          DistKernel("Scale2AxpyScale", grid, N, D, N, <<"scale", "xy", "xn", "axpy_scale">>),
          DistKernel("BatchedAxpy", grid, N, D, N * D, <<"axpy_scale", "X", "dX">>),
          DistKernel("BatchedMul", grid, N, D, N * D, <<"X", "scale", "dY">>),
          DistKernel("Scale2AxpyScale", grid, N, D, N, <<"scale", "xy", "yn", "axpy_scale">>),
          DistKernel("BatchedAxpy", grid, N, D, N * D, <<"axpy_scale", "Y", "dY">>)>>

\* the kernels an operator issues
DistStream(type, N, D) ==
    CASE type = "SquaredL2Distance" -> DistReductionStream("SquaredL2DistanceKernel", N, D)
      [] type = "L1Distance" -> DistReductionStream("L1DistanceKernel", N, D)
      [] type = "DotProduct" -> DistReductionStream("DotProductKernel", N, D)
      [] type = "SquaredL2DistanceGradient" -> SquaredL2DistanceGradientStream(N, D)
      [] type = "L1DistanceGradient" -> L1DistanceGradientStream(N, D)
      [] type = "CosineSimilarityGradient" -> CosineSimilarityGradientStream(N, D)

\* the threads of a launch, the block of a thread (hipBlockIdx_x) and its
\* place in the block (hipThreadIdx_x)
DistThreadsOf(k) == 0..(k.grid * CAFFE_HIP_NUM_THREADS - 1)

DistBlockOf(t) == t \div CAFFE_HIP_NUM_THREADS

DistLaneOf(t) == t % CAFFE_HIP_NUM_THREADS

\* the index a thread starts its outer loop with: the block for the rows of
\* a reduction kernel, hipBlockIdx_x * hipBlockDim_x + hipThreadIdx_x for
\* HIP_1D_KERNEL_LOOP
DistFirstIndex(k, t) ==
    IF k.name \in DistReductionKernels THEN DistBlockOf(t) ELSE t

\* a slip: the row loop strides by the grid and the thread's place
NextRowPerThread(k, t, i) == i + k.grid + DistLaneOf(t)

\* for(...; i < N; i += hipGridDim_x)
NextRow(k, t, i) == i + k.grid

\* a slip: HIP_1D_KERNEL_LOOP strides by the threads of one block
NextIndexByBlock(k, i) == i + CAFFE_HIP_NUM_THREADS

\* HIP_1D_KERNEL_LOOP: i += hipBlockDim_x * hipGridDim_x
NextIndex(k, i) == i + CAFFE_HIP_NUM_THREADS * k.grid

\* the thread with its loop index moved to next: it goes round again while
\* next is below the bound
DistAdvance(k, th, next) ==
    [th EXCEPT !.i = next, !.pc = IF next < k.n THEN "loop" ELSE "exit"]

\* the state of the stream's oldest kernel when it starts
DistLaunch(stream) ==
    LET k       == Head(stream)
        threads == IF stream = <<>> THEN {} ELSE DistThreadsOf(k)
        n       == IF stream = <<>> THEN 0 ELSE k.n
    IN  [stream |-> stream,
         thread |-> [t \in threads |->
                       DistAdvance(k, [i |-> 0, pc |-> "loop", arrived |-> 0,
                                       sum |-> [value |-> 0, rows |-> {}]],
                                   DistFirstIndex(k, t))],
         temp   |-> [t \in threads |-> [row |-> -1, value |-> 0]],
         visits |-> [i \in 0..(n - 1) |-> <<>>],
         summed |-> [i \in 0..(n - 1) |-> {}]]

\* the oldest kernel of the stream and the data of its n-th argument
DistHead == Head(aux.stream)

DistArg(k, n) == blobs[k.args[n]].data

\* the oldest kernel is one of names
DistRunning(names) ==
    status = "running" /\ aux.stream # <<>> /\ DistHead.name \in names

\* the stream's oldest kernel has finished: the next one starts
DistStreamNext ==
    /\ aux' = DistLaunch(Tail(aux.stream))
    /\ launches' = Append(launches, DistHead.name)
    /\ status' = IF Tail(aux.stream) = <<>> THEN "done" ELSE "running"
    /\ UNCHANGED op

\* the integers a buffer of whole numbers holds
DistInts(buf) == [r \in DOMAIN buf |-> buf[r].num]

\* what a routine of math:: leaves in its last argument
DistMathResult(k) ==
    CASE k.name = "math::Sub" -> [r \in 1..k.n |-> DistArg(k, 1)[r] - DistArg(k, 2)[r]]
      [] k.name = "math::Scale" -> [r \in 1..k.n |-> (-1) * DistArg(k, 1)[r]]
      [] k.name = "math::Maximum" ->
             [r \in 1..k.n |-> SInt(Maximum(k.n, KEps, DistInts(DistArg(k, 1)))[r])]
      [] k.name = "math::Sqrt" -> Sqrt(k.n, DistInts(DistArg(k, 1)))
      [] k.name = "math::Mul" -> [r \in 1..k.n |-> SMul(DistArg(k, 1)[r], DistArg(k, 2)[r])]
      [] k.name = "math::Div" ->
             [r \in 1..k.n |-> SDiv(SInt(DistArg(k, 1)[r]), DistArg(k, 2)[r])]

\* a routine of math:: runs
DistMathStep ==
    /\ DistRunning(DistMathRoutines)
    /\ blobs' = [blobs EXCEPT ![DistHead.args[Len(DistHead.args)]].data =
                                  DistMathResult(DistHead)]
    /\ DistStreamNext

\* the stores of the iteration for index i of an elementwise kernel: the
\* buffers stored to and the value each gets at i
DistElementStores(k, i) ==
    CASE k.name = "StripedScaleKernel" ->
             [b \in {k.args[3]} |->
                 StripedScaleKernel(k.N, k.D, DistArg(k, 1), DistArg(k, 2))[i + 1]]
      [] k.name = "L1DistanceGradientKernel" ->
             LET g == L1DistanceGradientAt(k.D, DistArg(k, 1), DistArg(k, 2),
                                           DistArg(k, 3), i)
             IN  [b \in {k.args[4], k.args[5]} |-> IF b = k.args[4] THEN g.dX ELSE g.dY]
      [] k.name = "BatchedMul" ->
             [b \in {k.args[3]} |->
                 BatchedMul(k.N, k.D, DistArg(k, 1), DistArg(k, 2))[i + 1]]
      [] k.name = "Scale2AxpyScale" ->
             [b \in {k.args[4]} |->
                 Scale2AxpyScale(k.N, DistArg(k, 1), DistInts(DistArg(k, 2)),
                                 DistArg(k, 3))[i + 1]]
      [] k.name = "BatchedAxpy" ->
             [b \in {k.args[3]} |->
                 BatchedAxpy(k.N, k.D, DistArg(k, 1), DistArg(k, 2), DistArg(k, 3))[i + 1]]

\* one iteration of HIP_1D_KERNEL_LOOP in one thread of an elementwise kernel
DistElementThread ==
    /\ DistRunning(DistElementwiseKernels)
    /\ \E t \in DOMAIN aux.thread :
          LET k      == DistHead
              i      == aux.thread[t].i
              stores == DistElementStores(k, i)
          IN  /\ aux.thread[t].pc = "loop"
              /\ blobs' = [b \in DOMAIN blobs |->
                              IF b \in DOMAIN stores
                              THEN [blobs[b] EXCEPT !.data[i + 1] = stores[b]]
                              ELSE blobs[b]]
              /\ aux' = [aux EXCEPT
                            !.thread[t] = DistAdvance(k, @, NextIndex(k, i)),
                            !.visits[i] = Append(@, t)]
    /\ UNCHANGED <<op, launches, status>>

\* the terms of row i a reduction kernel sums
ReduceTerms(k, i) ==
    [c \in 1..k.D |->
        LET x == At(DistArg(k, 1), i * k.D + c - 1)
            y == At(DistArg(k, 2), i * k.D + c - 1)
        IN  CASE k.name = "SquaredL2DistanceKernel" -> (x - y) * (x - y)
              [] k.name = "L1DistanceKernel" -> Abs(x - y)
              [] k.name = "DotProductKernel" -> x * y]

\* what thread 0 stores for a row with the sum total
ReduceResult(k, total) ==
    IF k.name = "SquaredL2DistanceKernel" THEN SNorm(total, 2, 1) ELSE SInt(total)

\* a barrier lets thread t pass when every thread of its block has arrived
\* at it
BarrierOpen(t) ==
    \A u \in DOMAIN aux.thread :
        DistBlockOf(u) = DistBlockOf(t) =>
            aux.thread[u].arrived >= aux.thread[t].arrived

\* a slip: the kernel without its __syncthreads()
SyncThreadsAbsent(t) == t \in DOMAIN aux.thread

\* __syncthreads() after BlockReduce
SyncThreadsOpen(t) == BarrierOpen(t)

\* a thread of a reduction kernel sums its elements of row i and hands the
\* sum to BlockReduce, which deposits it in temp_storage and waits for the
\* block
ReduceDeposit ==
    /\ DistRunning(DistReductionKernels)
    /\ \E t \in DOMAIN aux.thread :
          LET k == DistHead
              i == aux.thread[t].i
          IN  /\ aux.thread[t].pc = "loop"
              /\ aux' = [aux EXCEPT
                            !.temp[t] = [row   |-> i,
                                         value |-> ThreadPartial(ReduceTerms(k, i),
                                                                 DistLaneOf(t))],
                            !.thread[t].pc = "reduce",
                            !.thread[t].arrived = @ + 1]
    /\ UNCHANGED <<op, blobs, launches, status>>

\* BlockReduce returns: thread 0 of the block has added up the deposits of
\* its block (the value returned to the other threads is not used), and the
\* thread arrives at __syncthreads()
ReduceSum ==
    /\ DistRunning(DistReductionKernels)
    /\ \E t \in DOMAIN aux.thread :
          LET block == {u \in DOMAIN aux.thread : DistBlockOf(u) = DistBlockOf(t)}
              first == DistBlockOf(t) * CAFFE_HIP_NUM_THREADS
          IN  /\ aux.thread[t].pc = "reduce"
              /\ BarrierOpen(t)
              /\ aux' = [aux EXCEPT
                            !.thread[t].pc = "sync",
                            !.thread[t].arrived = @ + 1,
                            !.thread[t].sum =
                                IF DistLaneOf(t) = 0
                                THEN [value |-> SumSeq([l \in 1..CAFFE_HIP_NUM_THREADS |->
                                                          aux.temp[first + l - 1].value]),
                                      rows  |-> {[thread |-> u, row |-> aux.temp[u].row] :
                                                   u \in block}]
                                ELSE @]
    /\ UNCHANGED <<op, blobs, launches, status>>

\* the thread leaves __syncthreads(), thread 0 stores the row's result, and
\* the thread moves to its block's next row
ReduceWrite ==
    /\ DistRunning(DistReductionKernels)
    /\ \E t \in DOMAIN aux.thread :
          LET k   == DistHead
              i   == aux.thread[t].i
              out == k.args[3]
          IN  /\ aux.thread[t].pc = "sync"
              /\ SyncThreadsOpen(t)
              /\ IF DistLaneOf(t) = 0
                 THEN /\ blobs' = [blobs EXCEPT ![out].data[i + 1] =
                                      ReduceResult(k, aux.thread[t].sum.value)]
                      /\ aux' = [aux EXCEPT
                                    !.thread[t] = DistAdvance(k, @, NextRow(k, t, i)),
                                    !.visits[i] = Append(@, DistBlockOf(t)),
                                    !.summed[i] = aux.thread[t].sum.rows]
                 ELSE /\ blobs' = blobs
                      /\ aux' = [aux EXCEPT
                                    !.thread[t] = DistAdvance(k, @, NextRow(k, t, i))]
    /\ UNCHANGED <<op, launches, status>>

\* every thread of the oldest kernel has left it: the stream goes on
DistRetire ==
    /\ DistRunning(DistReductionKernels \cup DistElementwiseKernels)
    /\ \A t \in DOMAIN aux.thread : aux.thread[t].pc = "exit"
    /\ blobs' = blobs
    /\ DistStreamNext

\* N and D as the operator computes them
DistLaunchN(type, X) ==
    IF type = "DotProduct" /\ Size(X) = 0 THEN 0 ELSE DistBatch(X)

\* SquaredL2DistanceOp divides X.size() by N without the guard N > 0 of the
\* other operators: its D is not defined for N = 0
DistDivides(type, X) ==
    type = "SquaredL2Distance" /\ DistLaunchN(type, X) = 0

DistLaunchD(type, X) ==
    IF type = "CosineSimilarityGradient" THEN SizeFromDim(X, 1)
    ELSE IF DistLaunchN(type, X) > 0 THEN CDiv(Size(X), DistLaunchN(type, X))
    ELSE 0

\* the D a division by zero that does not trap may leave
DistUndefinedD == {0, 1}

\* RunOnDevice from the Resize of its outputs to its return: the outputs and
\* aux_ resized, their content being what the memory held, and the kernels
\* issued
DistResizeAndIssue(N, D) ==
    /\ \E stale \in StaleValues :
          LET X      == blobs.X
              row    == Tensor("float", <<N>>, [r \in 1..N |-> SInt(stale)])
              whole  == Tensor("float", X.dims, [r \in 1..Size(X) |-> stale])
              wholeS == Tensor("float", X.dims,
                               [r \in 1..Size(X) |-> SInt(stale)])
          IN  blobs' =
                  IF op.type \in DistForwardOps
                  THEN [blobs EXCEPT !.distance = row]
                  ELSE IF op.type = "CosineSimilarityGradient"
                  THEN [blobs EXCEPT !.dX = wholeS, !.dY = wholeS,
                                     !.xn = row, !.yn = row, !.xy = row,
                                     !.xyn = row, !.scale = row,
                                     !.axpy_scale = row]
                  ELSE [blobs EXCEPT !.dX = whole, !.dY = whole]
    /\ aux' = DistLaunch(DistStream(op.type, N, D))
    /\ status' = IF DistStream(op.type, N, D) = <<>> THEN "done" ELSE "running"
    /\ UNCHANGED <<op, launches>>

\* RunOnDevice of the operator up to its return: the inputs checked, N and D
\* computed, the outputs resized and the kernels issued.  The division by
\* N = 0 of SquaredL2DistanceOp is undefined behaviour: it traps (SIGFPE)
\* before anything is resized, or leaves some D and the run goes on.
IssueDistance ==
    /\ status = "ready"
    /\ LET X   == blobs.X
           N   == DistLaunchN(op.type, X)
           msg == IF op.type \in DistForwardOps THEN DistDimsCheck(X, blobs.Y)
                  ELSE DistGradientCheck(X, blobs.Y, blobs.dDistance, N)
       IN  IF msg # "ok" THEN Failed(msg)
           ELSE IF DistDivides(op.type, X)
           THEN \/ /\ status' = "SIGFPE"
                   /\ UNCHANGED <<op, blobs, aux, launches>>
                \/ \E D \in DistUndefinedD : DistResizeAndIssue(N, D)
           ELSE DistResizeAndIssue(N, DistLaunchD(op.type, X))

\* the operators, shapes and inputs explored thread by thread
DistThreadOps ==
    {"SquaredL2Distance", "L1Distance", "DotProduct", "SquaredL2DistanceGradient",
     "L1DistanceGradient", "CosineSimilarityGradient"}

DistThreadShapes == {<<0, 2>>, <<1, 0>>, <<1, 3>>, <<2, 1>>, <<3, 2>>}

\* X: rising from 1, falling from 1, and the values at distance 3, 2, 1 below
\* and 1, 2, 3 above the 2 that Y holds everywhere
DistThreadX(n) ==
    {[r \in 1..n |-> r], [r \in 1..n |-> 2 - r],
     [r \in 1..n |-> IF r <= 3 THEN r - 2 ELSE r - 1]}

DistThreadY(n) == {[r \in 1..n |-> 2]}

InitDistThreads ==
    /\ \E type \in DistThreadOps, d \in DistThreadShapes :
          /\ op = [type |-> type]
          /\ \E x \in DistThreadX(Prod(d)), y \in DistThreadY(Prod(d)) :
                blobs = [X          |-> Tensor("float", d, x),
                         Y          |-> Tensor("float", d, y),
                         dDistance  |-> IF type \in DistForwardOps THEN NoTensor
                                        ELSE Tensor("float", <<d[1]>>,
                                                    [r \in 1..d[1] |-> r + 1]),
                         distance   |-> NoTensor,
                         dX         |-> NoTensor,
                         dY         |-> NoTensor,
                         xn         |-> NoTensor,
                         yn         |-> NoTensor,
                         xy         |-> NoTensor,
                         xyn        |-> NoTensor,
                         scale      |-> NoTensor,
                         axpy_scale |-> NoTensor]
    /\ aux = DistLaunch(<<>>)
    /\ launches = <<>>
    /\ status = "ready"

NextDistThreads ==
    \/ IssueDistance
    \/ DistMathStep
    \/ DistElementThread
    \/ ReduceDeposit
    \/ ReduceSum
    \/ ReduceWrite
    \/ DistRetire

SpecDistThreads == InitDistThreads /\ [][NextDistThreads]_vars

\* the three reduction operators alone.  The scheduler of the device runs
\* every thread that can take a step and the stream retires a kernel all
\* of whose threads have left: weak fairness of the steps, each of which
\* changes status or aux.
InitDistReduce == InitDistThreads /\ op.type \in DistForwardOps

NextDistReduce ==
    \/ IssueDistance
    \/ ReduceDeposit
    \/ ReduceSum
    \/ ReduceWrite
    \/ DistRetire

SpecDistReduce ==
    InitDistReduce /\ [][NextDistReduce]_vars /\ WF_<<status, aux>>(NextDistReduce)

(***************************************************************************)
(* Claims about the distance kernels thread by thread (SpecDistThreads).   *)
(***************************************************************************)
\* the operator has been issued on the stream
DistIssued(type) == op.type = type /\ status \in {"running", "done"}

\* the oldest kernel of the stream is name, running for the operator type
DistKernelRunning(type, name) ==
    op.type = type /\ status = "running" /\ DistHead.name = name

\* every thread of the oldest kernel has left it
DistAllExited == \A t \in DOMAIN aux.thread : aux.thread[t].pc = "exit"

\* C24: SquaredL2DistanceGradient sets dX[i,j] = (X[i,j] - Y[i,j]) *
\* dDistance[i] and dY[i,j] = -dX[i,j] for every row i and element j; while
\* StripedScaleKernel scales dX in place, in whatever order its threads run,
\* every element of dX holds the difference X - Y until its iteration has
\* run and the scaled difference from then on.
C24_SquaredL2Gradient ==
    /\ DistKernelRunning("SquaredL2DistanceGradient", "StripedScaleKernel") =>
          \A i \in 0..(DistN - 1), j \in 0..(DistD - 1) :
              DistDX(i, j) =
                  IF aux.visits[i * DistD + j] = <<>> THEN DistX(i, j) - DistY(i, j)
                  ELSE (DistX(i, j) - DistY(i, j)) * DistG(i)
    /\ (op.type = "SquaredL2DistanceGradient" /\ status = "done") =>
          /\ Len(blobs.dX.data) = DistN * DistD
          /\ Len(blobs.dY.data) = DistN * DistD
          /\ \A i \in 0..(DistN - 1), j \in 0..(DistD - 1) :
                /\ DistDX(i, j) = (DistX(i, j) - DistY(i, j)) * DistG(i)
                /\ DistDY(i, j) = -DistDX(i, j)

\* StripedScaleKernel at work on three rows of two elements, X = (1, ..., 6),
\* Y = 2 everywhere, dDistance = (2, 3, 4): the thread of element 2 has
\* scaled its difference 1 to 3 while element 0 still holds its difference -1
C24_Witness ==
    /\ DistKernelRunning("SquaredL2DistanceGradient", "StripedScaleKernel")
    /\ blobs.X.data = <<1, 2, 3, 4, 5, 6>>
    /\ aux.visits[0] = <<>> /\ aux.visits[2] = <<2>>
    /\ blobs.dX.data[1] = -1 /\ blobs.dX.data[3] = 3

\* the differences X - Y, in u, that are no further than 1e-12 from zero
L1FlatRegion == {d \in Int : -L1KEps <= d /\ d <= L1KEps}

\* the gradient pair a difference d = X - Y asks for: (0, 0) in the flat
\* region, (g, -g) above it and (-g, g) below it
L1GradientPair(d, g) ==
    IF d \in L1FlatRegion THEN <<0, 0>>
    ELSE IF d > 0 THEN <<g, -g>>
    ELSE <<-g, g>>

\* C25: L1DistanceGradient sets dX[i,j] = dDistance[i] and dY[i,j] =
\* -dDistance[i] when X[i,j] - Y[i,j] > 1e-12, the opposite when it is
\* < -1e-12 and both to 0 otherwise, so dX[i,j] + dY[i,j] = 0; every element
\* of dX and dY has been written, once, when the kernel's threads have left.
\* The inputs hold differences of 0, of 5e-13 (inside the flat region), of
\* exactly 1e-12 (its edge) and of 1.5e-12 and more, of either sign.
C25_L1Gradient ==
    /\ DistKernelRunning("L1DistanceGradient", "L1DistanceGradientKernel") =>
          /\ \A e \in DOMAIN aux.visits : Len(aux.visits[e]) <= 1
          /\ DistAllExited => \A e \in DOMAIN aux.visits : Len(aux.visits[e]) = 1
          /\ \A i \in 0..(DistN - 1), j \in 0..(DistD - 1) :
                aux.visits[i * DistD + j] # <<>> =>
                    <<DistDX(i, j), DistDY(i, j)>> =
                        L1GradientPair(DistX(i, j) - DistY(i, j), DistG(i))
    /\ (op.type = "L1DistanceGradient" /\ status = "done") =>
          /\ Len(blobs.dX.data) = DistN * DistD
          /\ Len(blobs.dY.data) = DistN * DistD
          /\ \A i \in 0..(DistN - 1), j \in 0..(DistD - 1) :
                /\ <<DistDX(i, j), DistDY(i, j)>> =
                       L1GradientPair(DistX(i, j) - DistY(i, j), DistG(i))
                /\ DistDX(i, j) + DistDY(i, j) = 0

\* the operator has finished on three rows of two elements,
\* X = (-1, 0, 1, 3, 4, 5) against Y = 2 everywhere with dDistance =
\* (2, 3, 4): the differences are -1.5e-12, -1e-12, -5e-13, 5e-13, 1e-12 and
\* 1.5e-12, and only the first and the last lie beyond the flat region
C25_Witness ==
    /\ op.type = "L1DistanceGradient" /\ status = "done"
    /\ blobs.X.data = <<-1, 0, 1, 3, 4, 5>>
    /\ blobs.Y.data = <<2, 2, 2, 2, 2, 2>>
    /\ blobs.dDistance.data = <<2, 3, 4>>
    /\ blobs.dX.data = <<-2, 0, 0, 0, 0, 4>>
    /\ blobs.dY.data = <<2, 0, 0, 0, 0, -4>>

\* the threads of the block that takes row i of the oldest kernel
RowBlock(i) ==
    {t \in DOMAIN aux.thread : DistBlockOf(t) = i % DistHead.grid}

\* the whole result of a reduction kernel on X and Y
ReductionOf(type, N, D, X, Y) ==
    CASE type = "SquaredL2Distance" -> SquaredL2DistanceKernel(N, D, X, Y)
      [] type = "L1Distance" -> [r \in 1..N |-> SInt(L1DistanceKernel(N, D, X, Y)[r])]
      [] type = "DotProduct" -> [r \in 1..N |-> SInt(DotProductKernel(N, D, X, Y)[r])]

\* C26: in SquaredL2DistanceKernel, L1DistanceKernel and DotProductKernel,
\* for every row i and every interleaving of the threads, what thread 0 has
\* written for row i is made of the deposits of all threads of the block,
\* each computed for row i and none for another row, and it is the sum of
\* the threads' partial sums of row i; the finished kernel leaves the row
\* sums of the whole input.
C26_RowReduction ==
    /\ DistRunning(DistReductionKernels) =>
          \A i \in DOMAIN aux.visits :
              aux.visits[i] # <<>> =>
                  /\ aux.summed[i] = {[thread |-> u, row |-> i] : u \in RowBlock(i)}
                  /\ At(DistArg(DistHead, 3), i) =
                         ReduceResult(DistHead,
                             SumSeq([l \in 1..CAFFE_HIP_NUM_THREADS |->
                                       ThreadPartial(ReduceTerms(DistHead, i), l - 1)]))
    /\ (op.type \in DistForwardOps /\ status = "done") =>
          blobs.distance.data =
              ReductionOf(op.type, DistLaunchN(op.type, blobs.X),
                          DistLaunchD(op.type, blobs.X), blobs.X.data, blobs.Y.data)

\* SquaredL2DistanceKernel on three rows in two blocks, X = (1, ..., 6)
\* against Y = 2: block 0 has written row 0, ((1-2)^2 + (2-2)^2) / 2 = 1/2,
\* from the deposits of its two threads for row 0, and its thread 1 has
\* already deposited its partial sum for row 2 in the storage thread 0 read
C26_Witness ==
    /\ DistKernelRunning("SquaredL2Distance", "SquaredL2DistanceKernel")
    /\ blobs.X.data = <<1, 2, 3, 4, 5, 6>>
    /\ aux.visits[0] = <<0>>
    /\ aux.summed[0] = {[thread |-> 0, row |-> 0], [thread |-> 1, row |-> 0]}
    /\ blobs.distance.data[1] = SNorm(1, 2, 1)
    /\ aux.temp[1] = [row |-> 2, value |-> 16]
    /\ aux.temp[0].row = 0

\* C27: the grid-stride loops cover the work exactly once: while a kernel
\* runs no index has been processed twice, and when its threads have left
\* every row in [0, N) of a reduction kernel has been processed by exactly
\* one block, block i mod grid, and every index of an elementwise kernel
\* (BatchedMul, Scale2AxpyScale and BatchedAxpy in min(N, max blocks) blocks
\* included) by exactly one thread, once.
C27_CoveredOnce ==
    DistRunning(DistReductionKernels \cup DistElementwiseKernels) =>
        \A e \in DOMAIN aux.visits :
            /\ Len(aux.visits[e]) <= 1
            /\ DistAllExited => Len(aux.visits[e]) = 1
            /\ aux.visits[e] # <<>> =>
                  aux.visits[e][1] =
                      IF DistHead.name \in DistReductionKernels THEN e % DistHead.grid
                      ELSE e % (DistHead.grid * CAFFE_HIP_NUM_THREADS)

\* BatchedAxpy of CosineSimilarityGradient on three rows of two elements has
\* run to its end in min(3, 2) = 2 blocks of 2 threads: threads 0 and 1 took
\* two of the six elements each, threads 2 and 3 one each
C27_Witness ==
    /\ DistKernelRunning("CosineSimilarityGradient", "BatchedAxpy")
    /\ DistHead.grid = 2 /\ DistHead.n = 6
    /\ DistAllExited
    /\ aux.visits = [e \in 0..5 |-> <<e % 4>>]

\* thread t is held at a barrier by thread u of its block, which has not
\* arrived at it yet
DistHeldBy(t, u) ==
    /\ DistBlockOf(t) = DistBlockOf(u)
    /\ aux.thread[t].pc \in {"reduce", "sync"}
    /\ aux.thread[u].arrived < aux.thread[t].arrived

\* C29: in SquaredL2DistanceKernel, L1DistanceKernel and DotProductKernel
\* the threads of a block run the same row iterations: a thread held at a
\* barrier is held only by threads that have not left the kernel and are on
\* their way to that barrier, in the same row or finishing the row before;
\* the threads of a block that have left have passed the same number of
\* barriers; and every operator issued finishes.
C29_Terminates ==
    /\ [](DistRunning(DistReductionKernels) =>
            \A t, u \in DOMAIN aux.thread :
                /\ DistHeldBy(t, u) =>
                      /\ aux.thread[u].pc # "exit"
                      /\ aux.thread[t].i \in
                             {aux.thread[u].i, NextRow(DistHead, u, aux.thread[u].i)}
                /\ (/\ DistBlockOf(t) = DistBlockOf(u)
                    /\ aux.thread[t].pc = "exit" /\ aux.thread[u].pc = "exit") =>
                      aux.thread[t].arrived = aux.thread[u].arrived)
    /\ (status = "running") ~> (status = "done")

\* DotProductKernel on three rows in two blocks: thread 1 of block 0 waits
\* in the reduction of row 2 for thread 0, which is still at the
\* __syncthreads() of row 0
C29_Witness ==
    /\ DistKernelRunning("DotProduct", "DotProductKernel")
    /\ DistHead.N = 3 /\ DistHead.grid = 2
    /\ aux.thread[1].pc = "reduce" /\ aux.thread[1].i = 2
    /\ aux.thread[0].pc = "sync" /\ aux.thread[0].i = 0

(***************************************************************************)
(* one_hot_ops_hip.cc thread by thread (SpecOneHotThreads).                *)
(*                                                                         *)
(* DoOneHotOp issues math::Set and OneHotOpKernel to the stream of the     *)
(* context, which runs the second when every thread of the first has run;  *)
(* the threads of one kernel run in any order.                             *)
(* aux = [stream, writes]: the kernels issued and not finished, each with  *)
(* the threads that have not run yet, and for every element of output the  *)
(* stores it has received, in order, each named by its kernel and thread.  *)
(***************************************************************************)
\* a slip: the kernel issued ahead of the zero fill
OneHotStreamKernelFirst(batch_size, n) ==
    <<[kernel |-> "OneHotOpKernel", pending |-> GridThreads(batch_size)],
      [kernel |-> "Set", pending |-> GridThreads(n)]>>

\* the kernels DoOneHotOp issues for an output of n elements, each with the
\* threads that have an index to visit
OneHotStream(batch_size, n) ==
    <<[kernel |-> "Set", pending |-> GridThreads(n)],
      [kernel |-> "OneHotOpKernel", pending |-> GridThreads(batch_size)]>>

\* OneHotOp<HIPContext>::DoOneHotOp up to its return; a kernel with no index
\* to visit is over at once
IssueOneHot ==
    /\ op.type = "OneHot"
    /\ status = "ready"
    /\ aux' = [stream |-> SelectSeq(OneHotStream(op.batch_size, Size(blobs.output)),
                                    LAMBDA k : k.pending # {}),
               writes |-> [j \in 1..Size(blobs.output) |-> <<>>]]
    /\ launches' = launches \o <<"math::Set", "OneHotOpKernel">>
    /\ status' = "running"
    /\ UNCHANGED <<op, blobs>>

\* one thread of math::Set runs: output[i] = 0 for its indices
OneHotSetThread ==
    /\ status = "running"
    /\ aux.stream # <<>>
    /\ Head(aux.stream).kernel = "Set"
    /\ \E t \in Head(aux.stream).pending :
          LET mine == KernelLoop(t, Size(blobs.output))
          IN  /\ blobs' = [blobs EXCEPT !.output.data =
                              [j \in 1..Len(@) |->
                                  IF j - 1 \in mine THEN OneHotZeroFill(Len(@))[j]
                                  ELSE @[j]]]
              /\ aux' = [aux EXCEPT
                            !.stream = PadStreamAfter(@, t),
                            !.writes = [j \in 1..Len(@) |->
                                           IF j - 1 \in mine
                                           THEN Append(@[j], <<"Set", t>>)
                                           ELSE @[j]]]
              /\ status' = IF PadStreamAfter(aux.stream, t) = <<>> THEN "done"
                           ELSE "running"
    /\ UNCHANGED <<op, launches>>

\* one thread of OneHotOpKernel runs: output[i * index_size + indices[i]] = 1
\* for its indices i
OneHotKernelThread ==
    /\ status = "running"
    /\ aux.stream # <<>>
    /\ Head(aux.stream).kernel = "OneHotOpKernel"
    /\ \E t \in Head(aux.stream).pending :
          LET mine == {OneHotTarget(i, op.batch_size, op.index_size, blobs.indices.data) :
                         i \in KernelLoop(t, op.batch_size)}
          IN  /\ blobs' = [blobs EXCEPT !.output.data =
                              [j \in 1..Len(@) |-> IF j - 1 \in mine THEN 1 ELSE @[j]]]
              /\ aux' = [aux EXCEPT
                            !.stream = PadStreamAfter(@, t),
                            !.writes = [j \in 1..Len(@) |->
                                           IF j - 1 \in mine
                                           THEN Append(@[j], <<"OneHotOpKernel", t>>)
                                           ELSE @[j]]]
              /\ status' = IF PadStreamAfter(aux.stream, t) = <<>> THEN "done"
                           ELSE "running"
    /\ UNCHANGED <<op, launches>>

\* the batch sizes and category counts explored thread by thread, with every
\* index naming a category
OneHotThreadShapes == {<<1, 1>>, <<1, 3>>, <<2, 2>>, <<3, 2>>, <<2, 3>>}

InitOneHotThreads ==
    /\ \E shape \in OneHotThreadShapes :
         /\ op = [type |-> "OneHot", batch_size |-> shape[1], index_size |-> shape[2]]
         /\ \E indices \in Buffers(shape[1], 0..(shape[2] - 1)),
               stale \in OneHotStale(shape[1] * shape[2]) :
              blobs = [indices |-> Tensor("int64", <<shape[1]>>, indices),
                       output  |-> Tensor("float", shape, stale)]
    /\ aux = [stream |-> <<>>, writes |-> <<>>]
    /\ launches = <<>>
    /\ status = "ready"

NextOneHotThreads ==
    \/ IssueOneHot
    \/ OneHotSetThread
    \/ OneHotKernelThread

SpecOneHotThreads == InitOneHotThreads /\ [][NextOneHotThreads]_vars

(***************************************************************************)
(* Claims about one-hot encoding thread by thread (SpecOneHotThreads).     *)
(***************************************************************************)
\* the row of output the flat position j lies in
OneHotRowOf(j) == j \div op.index_size

\* C28: in OneHot with valid indices, every element of the output has been
\* zeroed before any thread of OneHotOpKernel stores a 1; an element gets at
\* most one 1, from the thread of its own row, and after it no zero; and
\* whatever the order of the threads the finished output is the zero matrix
\* with the 1 of each row.
C28_ZeroThenOnes ==
    (op.type = "OneHot" /\ status \in {"running", "done"}) =>
        /\ \A j \in 1..Size(blobs.output) :
              LET w == aux.writes[j]
              IN  /\ Len(w) <= 2
                  /\ Len(w) >= 1 => w[1][1] = "Set"
                  /\ Len(w) = 2 =>
                        /\ w[2][1] = "OneHotOpKernel"
                        /\ OneHotRowOf(j - 1) \in KernelLoop(w[2][2], op.batch_size)
                        /\ blobs.output.data[j] = 1
        /\ (\E j \in 1..Size(blobs.output) : Len(aux.writes[j]) = 2) =>
              \A j \in 1..Size(blobs.output) : Len(aux.writes[j]) >= 1
        /\ status = "done" =>
              blobs.output.data =
                  OneHotOpKernel(op.batch_size, op.index_size, blobs.indices.data,
                                 OneHotZeroFill(Size(blobs.output)))

\* three rows of two categories, indices (1, 0, 1), the output full of 5
\* before: the zero fill is complete and the thread of row 2 has stored its
\* 1 ahead of the threads of rows 0 and 1
C28_Witness ==
    /\ op.type = "OneHot" /\ status = "running"
    /\ op.batch_size = 3 /\ op.index_size = 2
    /\ blobs.indices.data = <<1, 0, 1>>
    /\ Head(aux.stream) = [kernel |-> "OneHotOpKernel", pending |-> {0, 1}]
    /\ blobs.output.data = <<0, 0, 0, 0, 0, 1>>
    /\ aux.writes[6] = <<<<"Set", 5>>, <<"OneHotOpKernel", 2>>>>

====
